---- MODULE Spec2Model ----
(***************************************************************************)
(* State-machine model of the es-bank-account pipeline:                    *)
(*   - the Account aggregate (domain/account): replay + admission,         *)
(*   - the MemoryEventStore / MemoryUnpublishedLog / LoggedEventRepo,      *)
(*   - the MemoryBus (eventutil/bus.go).                                   *)
(* Amounts are float64 in the source; the model uses integer-valued        *)
(* amounts, on which float64 arithmetic is exact.                          *)
(* A time.Time is modelled by its UTC civil date: the number of days since *)
(* Monday 1999-12-27, or ZeroTime for Go's zero time 0001-01-01.           *)
(***************************************************************************)
EXTENDS Integers, Sequences, FiniteSets, TLC

VARIABLES
    eventsIndex,     \* MemoryEventStore.eventsIndex: global, insertion-ordered
    store,           \* MemoryEventStore.store: aggregate-id -> events
    unpubLog,        \* MemoryUnpublishedLog.events
    published,       \* events for which Bus.Publish returned nil, in order
    acctCfg,         \* AggregateCfg limits handed to newAccount
    cmds,            \* ProcessTxn commands handled so far (history)
    isTerminating,   \* MemoryBus.isTerminating
    subsMapLock,     \* writer holding MemoryBus.subsMapLock (0: free)
    ensured,         \* actions whose entry of MemoryBus.subscriptions is non-nil
    arrays,          \* backing arrays of the subscription slices (Go heap)
    subscriptions,   \* MemoryBus.subscriptions: action -> slice header
    subs,            \* one record per Subscribe call: its subscription and position
    pubs,            \* one record per publishing goroutine: position in Publish
    msgs,            \* one record per Publish call (history)
    unsubs,          \* one record per Unsubscribe call: position, drain goroutine
    repo,            \* the caller of LoggedEventRepo.InsertAndPublish
    view,            \* MemoryTxnResultViewRepo and the goroutine hydrating it
    term,            \* the caller of MemoryBus.Terminate and its drain goroutines
    pm,              \* the Process Manager, the components around it, their channels
    callers          \* the goroutines calling the event store and the log directly

acctVars == <<eventsIndex, store, unpubLog, published, acctCfg, cmds>>
busVars == <<isTerminating, subsMapLock, ensured, arrays, subscriptions,
             subs, pubs, msgs, unsubs>>
vars == <<eventsIndex, store, unpubLog, published, acctCfg, cmds,
          isTerminating, subsMapLock, ensured, arrays, subscriptions,
          subs, pubs, msgs, unsubs, repo, view, term, pm, callers>>

---------------------------------------------------------------------------
(* Bounds *)

MaxCmds == 3
NumCusts == 1
NumTxnIDs == 3

Customers == 1..NumCusts
TxnIDs == 1..NumTxnIDs
Amounts == {-2, 0, 1, 2}

---------------------------------------------------------------------------
(* Time: the parts of Go's time.Time the aggregate uses *)

ZeroTime == -1

\* 2000-01-01 (Sat), 2000-01-03 (Mon), 2000-01-04 (Tue)
TxnTimes == {5, 7, 8}

\* time.Time.Year of the UTC date
Year(t) == IF t = ZeroTime THEN 1 ELSE IF t <= 4 THEN 1999 ELSE 2000

\* time.Time.YearDay of the UTC date (1-based)
YearDay(t) == IF t = ZeroTime THEN 1 ELSE IF t <= 4 THEN 361 + t ELSE t - 4

\* time.Time.ISOWeek: year and week of the Thursday of t's Monday-based week
ISOWeek(t) ==
    IF t = ZeroTime THEN <<1, 1>>
    ELSE LET thursday == t - (t % 7) + 3
         IN  <<Year(thursday), ((YearDay(thursday) - 1) \div 7) + 1>>

---------------------------------------------------------------------------
(* Event payloads *)

ZeroRecord == [NumTxns |-> 0, TotalAmount |-> 0]

\* the State a json.Unmarshal leaves untouched
ZeroState == [kind |-> "State", TxnID |-> 0, CustID |-> 0, TxnTime |-> ZeroTime,
              DailyTxn |-> ZeroRecord, WeeklyTxn |-> ZeroRecord, TotalAmount |-> 0]

State(txn, daily, weekly, total) ==
    [kind |-> "State", TxnID |-> txn.ID, CustID |-> txn.CustomerID,
     TxnTime |-> txn.Time, DailyTxn |-> daily, WeeklyTxn |-> weekly,
     TotalAmount |-> total]

TxnFailure(txn, err, cause) ==
    [kind |-> "TxnFailure", Txn |-> txn, Error |-> err, FailureCause |-> cause]

\* variant: the transaction id of a TxnFailure document is decoded too
UnmarshalStateKeepsID(data) ==
    IF data.kind = "State" THEN data ELSE [ZeroState EXCEPT !.TxnID = data.Txn.ID]

\* json.Unmarshal(event.Data(), &State{}): a TxnFailure document has none of
\* State's keys, so the decoded State keeps its zero values.
UnmarshalState(data) == IF data.kind = "State" THEN data ELSE ZeroState

NewEvent(id, aggID, corr, action, data) ==
    [id |-> id, agg |-> aggID, corr |-> corr, action |-> action, data |-> data]

---------------------------------------------------------------------------
(* MemoryEventStore *)

\* variant: the event is compared with the last one stored only
StoreHasLast(index, e) == index # <<>> /\ index[Len(index)].id = e.id

StoreHas(index, e) == \E i \in 1..Len(index) : index[i].id = e.id

\* Insert: duplicate ids are ignored, otherwise appended to bucket and index
StoreInsertIndex(index, e) == IF StoreHas(index, e) THEN index ELSE Append(index, e)

\* variant: the event is put in front of its aggregate's events
StoreInsertBucketFront(index, st, e) ==
    IF StoreHas(index, e) THEN st
    ELSE [st EXCEPT ![e.agg] = <<e>> \o @]

StoreInsertBucket(index, st, e) ==
    IF StoreHas(index, e) THEN st
    ELSE [st EXCEPT ![e.agg] = Append(@, e)]

\* variant: the aggregate id is not used to pick the bucket
FetchFirstBucket(st, aggID) == st[1]

Fetch(st, aggID) == st[aggID]

\* variant: the events are fetched from the start whatever the index
FetchByIndexFromStart(index, i) == index

FetchByIndex(index, i) ==
    IF i = Len(index) \/ Len(index) = 0 THEN <<>>
    ELSE [k \in 1..(Len(index) - i) |-> index[k + i]]

---------------------------------------------------------------------------
(* MemoryUnpublishedLog *)

LogInsert(log, e) == Append(log, e)

\* index of the first entry with e's id, 0 when absent
LogFind(log, e) ==
    IF \E i \in 1..Len(log) : log[i].id = e.id
    THEN CHOOSE i \in 1..Len(log) :
            /\ log[i].id = e.id
            /\ \A j \in 1..(i - 1) : log[j].id # e.id
    ELSE 0

\* (variant: Pop finds the event but leaves the log as it is)
LogRemoveAtNone(log, i) == log

\* append(p.events[:index], p.events[index+1:]...)
LogRemoveAt(log, i) == SubSeq(log, 1, i - 1) \o SubSeq(log, i + 1, Len(log))

---------------------------------------------------------------------------
(* LoggedEventRepo on a running bus, one caller: the whole call at once *)

\* one round of the loop of insertAndPubFromlog: store, publish, pop
RepoReplayOne(r, e) ==
    [index |-> StoreInsertIndex(r.index, e),
     store |-> StoreInsertBucket(r.index, r.store, e),
     pub   |-> Append(r.pub, e),
     log   |-> LogRemoveAt(r.log, LogFind(r.log, e))]

RECURSIVE RepoReplay(_, _)
RepoReplay(r, events) ==
    IF events = <<>> THEN r
    ELSE RepoReplay(RepoReplayOne(r, Head(events)), Tail(events))

\* InsertAndPublish: log insert, then replay of the snapshot Events()
InsertAndPublish(r, e) ==
    LET r1 == [r EXCEPT !.log = LogInsert(r.log, e)]
    IN  RepoReplay(r1, r1.log)

---------------------------------------------------------------------------
(* MemoryBus: Publish, Subscribe, Unsubscribe and the drain goroutine, one  *)
(* step per access to shared memory (locks, slice headers, array slots,    *)
(* channels).  A slice is a header (array, offset, length, capacity) over  *)
(* a backing array: Publish copies the header and reads the slots without  *)
(* the lock, Unsubscribe writes a slot of the same array.                  *)

ChanCap == 2
MaxSubs == 2
MaxUnsubs == 1
MaxMsgs == 2
NumPubs == 1

Pubs == 1..NumPubs
BusActions == {"AccountDeposited", "AccountWithdrawn"}

NilSlice == [arr |-> 0, off |-> 0, len |-> 0, cap |-> 0]

\* subs[i] of a slice header, i from 1
SliceAt(arrs, sl, i) == arrs[sl.arr][sl.off + i]

\* subs[i] = x: a write to the backing array
SliceSet(arrs, sl, i, x) == [arrs EXCEPT ![sl.arr][sl.off + i] = x]

\* subs[1:]
SliceTail(sl) == [sl EXCEPT !.off = @ + 1, !.len = @ - 1, !.cap = @ - 1]

\* capacity of the array that append allocates when the slice is full
GrowCap(cap) == IF cap = 0 THEN 1 ELSE 2 * cap

\* append(subs, x): in place while capacity lasts, else into a new array
SliceAppend(arrs, sl, x) ==
    IF sl.len < sl.cap
    THEN [arrays |-> [arrs EXCEPT ![sl.arr][sl.off + sl.len + 1] = x],
          slice  |-> [sl EXCEPT !.len = @ + 1]]
    ELSE LET n == GrowCap(sl.cap)
             new == [k \in 1..n |->
                        IF k <= sl.len THEN arrs[sl.arr][sl.off + k]
                        ELSE IF k = sl.len + 1 THEN x ELSE 0]
         IN  [arrays |-> Append(arrs, new),
              slice  |-> [arr |-> Len(arrs) + 1, off |-> 0,
                          len |-> sl.len + 1, cap |-> n]]

\* position of subscription s in the slice (the search loop), 0 when absent
SliceIndex(arrs, sl, s) ==
    IF \E i \in 1..sl.len : SliceAt(arrs, sl, i) = s
    THEN CHOOSE i \in 1..sl.len :
            /\ SliceAt(arrs, sl, i) = s
            /\ \A j \in 1..(i - 1) : SliceAt(arrs, sl, j) # s
    ELSE 0

\* what no bus operation touches
restVars == <<eventsIndex, store, unpubLog, published, acctCfg, cmds, repo,
              view, term, pm, callers>>

IdlePub == [pc |-> "idle", msg |-> 0, snap |-> NilSlice, idx |-> 0, cur |-> 0]

BusInit ==
    /\ isTerminating = FALSE
    /\ subsMapLock = 0
    /\ ensured = {}
    /\ arrays = <<>>
    /\ subscriptions = [a \in BusActions |-> NilSlice]
    /\ subs = <<>>
    /\ pubs = [p \in Pubs |-> IdlePub]
    /\ msgs = <<>>
    /\ unsubs = <<>>

\* a Publish holds sub.lock.RLock while it sends on the channel
HoldsRLock(s) == \E p \in Pubs : pubs[p].pc = "send" /\ pubs[p].cur = s

\* an Unsubscribe or a Terminate blocked in sub.lock.Lock keeps new readers out
WriterWaits(s) ==
    \/ \E u \in 1..Len(unsubs) : unsubs[u].pc = "sublock" /\ unsubs[u].sub = s
    \/ term.pc = "sublock" /\ term.cur = s

\* subscribers of a whose Subscribe has returned and that nobody unsubscribes
LiveSubs(a) ==
    {s \in 1..Len(subs) :
        subs[s].pc = "live" /\ ~subs[s].unsub /\ subs[s].action = a}

(* Publish *)

\* entry of Publish up to the isTerminating check
PublishBegin(p, a, ev) ==
    /\ pubs[p].pc = "idle"
    /\ msgs' = Append(msgs, [action |-> a, event |-> ev, pub |-> p,
                             live |-> LiveSubs(a),
                             ret |-> IF isTerminating THEN "err" ELSE "run"])
    /\ pubs' = [pubs EXCEPT ![p] =
                  IF isTerminating THEN IdlePub
                  ELSE [IdlePub EXCEPT !.pc = "ensure", !.msg = Len(msgs) + 1]]

Publish(p, a) ==
    /\ Len(msgs) < MaxMsgs
    /\ PublishBegin(p, a, 0)
    /\ UNCHANGED <<restVars, isTerminating, subsMapLock, ensured, arrays, subscriptions,
                   subs, unsubs>>

PubEnsure(p) ==
    /\ pubs[p].pc = "ensure"
    /\ subsMapLock = 0
    /\ ensured' = ensured \cup {msgs[pubs[p].msg].action}
    /\ pubs' = [pubs EXCEPT ![p].pc = "snap"]
    /\ UNCHANGED <<restVars, isTerminating, subsMapLock, arrays, subscriptions,
                   subs, msgs, unsubs>>

\* return nil
PubReturn(p) ==
    /\ pubs' = [pubs EXCEPT ![p] = IdlePub]
    /\ msgs' = [msgs EXCEPT ![pubs[p].msg].ret = "ok"]

\* the next round of the range loop, or the return after the last one
PubLoop(p) ==
    IF pubs[p].idx < pubs[p].snap.len
    THEN /\ pubs' = [pubs EXCEPT ![p].idx = @ + 1, ![p].pc = "read", ![p].cur = 0]
         /\ UNCHANGED msgs
    ELSE PubReturn(p)

\* subs := b.subscriptions[action] under the read lock
PubSnapshot(p) ==
    /\ pubs[p].pc = "snap"
    /\ subsMapLock = 0
    /\ LET sl == subscriptions[msgs[pubs[p].msg].action]
       IN  IF sl.len = 0
           THEN PubReturn(p)
           ELSE /\ pubs' = [pubs EXCEPT ![p].snap = sl, ![p].idx = 1, ![p].pc = "read"]
                /\ UNCHANGED msgs
    /\ UNCHANGED <<restVars, isTerminating, subsMapLock, ensured, arrays, subscriptions,
                   subs, unsubs>>

\* the range loop reads slot idx of the copied header from the shared array
PubRead(p) ==
    /\ pubs[p].pc = "read"
    /\ pubs' = [pubs EXCEPT ![p].cur = SliceAt(arrays, pubs[p].snap, pubs[p].idx),
                            ![p].pc = "lock"]
    /\ UNCHANGED <<restVars, isTerminating, subsMapLock, ensured, arrays, subscriptions,
                   subs, msgs, unsubs>>

\* sub.lock.RLock and the isOpen test
PubLock(p) ==
    /\ pubs[p].pc = "lock"
    /\ ~WriterWaits(pubs[p].cur)
    /\ IF subs[pubs[p].cur].isOpen
       THEN /\ pubs' = [pubs EXCEPT ![p].pc = "send"]
            /\ UNCHANGED msgs
       ELSE PubLoop(p)
    /\ UNCHANGED <<restVars, isTerminating, subsMapLock, ensured, arrays, subscriptions,
                   subs, unsubs>>

\* sub.channel <- msg, blocking while the buffer is full; then RUnlock
PubSend(p) ==
    /\ pubs[p].pc = "send"
    /\ Len(subs[pubs[p].cur].chan) < ChanCap
    /\ subs' = [subs EXCEPT ![pubs[p].cur].chan = Append(@, pubs[p].msg),
                            ![pubs[p].cur].sent = Append(@, pubs[p].msg)]
    /\ PubLoop(p)
    /\ UNCHANGED <<restVars, isTerminating, subsMapLock, ensured, arrays, subscriptions,
                   unsubs>>

(* Subscribe *)

\* entry of Subscribe up to the first isTerminating check
Subscribe(a) ==
    /\ Len(subs) < MaxSubs
    /\ subs' = Append(subs, [action |-> a,
                             pc |-> IF isTerminating THEN "err" ELSE "check",
                             chan |-> <<>>, isOpen |-> FALSE,
                             sent |-> <<>>, unsub |-> FALSE])
    /\ UNCHANGED <<restVars, isTerminating, subsMapLock, ensured, arrays, subscriptions,
                   pubs, msgs, unsubs>>

\* the second isTerminating check, which returns nil, nil
SubCheck(s) ==
    /\ subs[s].pc = "check"
    /\ subs' = [subs EXCEPT ![s].pc = IF isTerminating THEN "nil" ELSE "ensure"]
    /\ UNCHANGED <<restVars, isTerminating, subsMapLock, ensured, arrays, subscriptions,
                   pubs, msgs, unsubs>>

\* ensureActionChan, then the subscription object with its open channel
SubEnsure(s) ==
    /\ subs[s].pc = "ensure"
    /\ subsMapLock = 0
    /\ ensured' = ensured \cup {subs[s].action}
    /\ subs' = [subs EXCEPT ![s].pc = "append", ![s].isOpen = TRUE]
    /\ UNCHANGED <<restVars, isTerminating, subsMapLock, arrays, subscriptions,
                   pubs, msgs, unsubs>>

\* the append under subsMapLock; Subscribe returns the channel
SubAppend(s) ==
    /\ subs[s].pc = "append"
    /\ subsMapLock = 0
    /\ \E r \in {SliceAppend(arrays, subscriptions[subs[s].action], s)} :
         /\ arrays' = r.arrays
         /\ subscriptions' = [subscriptions EXCEPT ![subs[s].action] = r.slice]
    /\ subs' = [subs EXCEPT ![s].pc = "live"]
    /\ UNCHANGED <<restVars, isTerminating, subsMapLock, ensured, pubs, msgs, unsubs>>

\* the subscriber takes the next message off its channel
Receive(s) ==
    /\ subs[s].pc = "live"
    /\ subs[s].chan # <<>>
    /\ subs' = [subs EXCEPT ![s].chan = Tail(@)]
    /\ UNCHANGED <<restVars, isTerminating, subsMapLock, ensured, arrays, subscriptions,
                   pubs, msgs, unsubs>>

(* Unsubscribe *)

\* entry of Unsubscribe(c, a) with c the channel of subscription s: the
\* drain goroutine starts before any lock is taken
UnsubscribeBegin(s, a) ==
    /\ subs[s].pc = "live"
    /\ unsubs' = Append(unsubs, [sub |-> s, action |-> a,
                                 pc |-> "maplock", drain |-> "select"])
    /\ IF a = subs[s].action
       THEN /\ subs' = [subs EXCEPT ![s].unsub = TRUE]
            /\ msgs' = [m \in DOMAIN msgs |->
                          IF msgs[m].ret = "run"
                          THEN [msgs[m] EXCEPT !.live = @ \ {s}]
                          ELSE msgs[m]]
       ELSE UNCHANGED <<subs, msgs>>
    /\ UNCHANGED <<restVars, isTerminating, subsMapLock, ensured, arrays, subscriptions,
                   pubs>>

Unsubscribe(s, a) ==
    /\ Len(unsubs) < MaxUnsubs
    /\ UnsubscribeBegin(s, a)

\* subsMapLock.Lock, the search, and subs[i] = subs[0] when c is found
UnsubSearch(u) ==
    /\ unsubs[u].pc = "maplock"
    /\ subsMapLock = 0
    /\ LET sl == subscriptions[unsubs[u].action]
           i  == SliceIndex(arrays, sl, unsubs[u].sub)
       IN  IF i = 0
           THEN /\ unsubs' = [unsubs EXCEPT ![u].pc = "err"]
                /\ UNCHANGED <<subsMapLock, arrays>>
           ELSE /\ arrays' = SliceSet(arrays, sl, i, SliceAt(arrays, sl, 1))
                /\ subsMapLock' = u
                /\ unsubs' = [unsubs EXCEPT ![u].pc = "sublock"]
    /\ UNCHANGED <<restVars, isTerminating, ensured, subscriptions, subs, pubs, msgs>>

\* variant: the channel is closed but b.subscriptions[action] stays as it is
UnsubCloseKeepsList(u) ==
    /\ unsubs[u].pc = "sublock"
    /\ ~HoldsRLock(unsubs[u].sub)
    /\ subs' = [subs EXCEPT ![unsubs[u].sub].isOpen = FALSE]
    /\ subsMapLock' = 0
    /\ unsubs' = [unsubs EXCEPT ![u].pc = "ok"]
    /\ UNCHANGED <<restVars, isTerminating, ensured, arrays, subscriptions, pubs, msgs>>

\* sub.lock.Lock once no Publish reads, close, b.subscriptions[action] =
\* subs[1:], and the deferred unlock and close of the drain signal
UnsubClose(u) ==
    /\ unsubs[u].pc = "sublock"
    /\ ~HoldsRLock(unsubs[u].sub)
    /\ subs' = [subs EXCEPT ![unsubs[u].sub].isOpen = FALSE]
    /\ subscriptions' = [subscriptions EXCEPT ![unsubs[u].action] = SliceTail(@)]
    /\ subsMapLock' = 0
    /\ unsubs' = [unsubs EXCEPT ![u].pc = "ok"]
    /\ UNCHANGED <<restVars, isTerminating, ensured, arrays, pubs, msgs>>

\* the drain goroutine's select: leaves when the signal is closed
DrainSelect(u) ==
    /\ unsubs[u].drain = "select"
    /\ unsubs' = [unsubs EXCEPT ![u].drain =
                    IF unsubs[u].pc \in {"ok", "err"} THEN "done" ELSE "recv"]
    /\ UNCHANGED <<restVars, isTerminating, subsMapLock, ensured, arrays, subscriptions,
                   subs, pubs, msgs>>

\* the drain goroutine's <-c: a message, or at once on a closed channel
DrainRecv(u) ==
    /\ unsubs[u].drain = "recv"
    /\ subs[unsubs[u].sub].chan # <<>> \/ ~subs[unsubs[u].sub].isOpen
    /\ subs' = [subs EXCEPT ![unsubs[u].sub].chan =
                  IF @ = <<>> THEN @ ELSE Tail(@)]
    /\ unsubs' = [unsubs EXCEPT ![u].drain = "select"]
    /\ UNCHANGED <<restVars, isTerminating, subsMapLock, ensured, arrays, subscriptions,
                   pubs, msgs>>

BusStep ==
    \/ \E a \in BusActions : Subscribe(a)
    \/ \E s \in 1..Len(subs) : SubCheck(s)
    \/ \E s \in 1..Len(subs) : SubEnsure(s)
    \/ \E s \in 1..Len(subs) : SubAppend(s)
    \/ \E s \in 1..Len(subs) : Receive(s)
    \/ \E s \in 1..Len(subs), a \in BusActions : Unsubscribe(s, a)
    \/ \E u \in 1..Len(unsubs) : UnsubSearch(u)
    \/ \E u \in 1..Len(unsubs) : UnsubClose(u)
    \/ \E u \in 1..Len(unsubs) : DrainSelect(u)
    \/ \E u \in 1..Len(unsubs) : DrainRecv(u)
    \/ \E p \in Pubs : PubEnsure(p)
    \/ \E p \in Pubs : PubSnapshot(p)
    \/ \E p \in Pubs : PubRead(p)
    \/ \E p \in Pubs : PubLock(p)
    \/ \E p \in Pubs : PubSend(p)

(* Terminate *)

MaxTerms == 2
MaxBlockedMsgs == 3

\* a Publish waits in sub.channel <- msg for room in the buffer
BlockedPubs ==
    {p \in Pubs : pubs[p].pc = "send" /\ Len(subs[pubs[p].cur].chan) = ChanCap}

\* what Terminate leaves alone in all its steps
termRest == <<eventsIndex, store, unpubLog, published, acctCfg, cmds, repo, view, pm,
              callers, ensured, arrays, pubs, unsubs>>

\* entry of Terminate: under terminateLock, return if isTerminating, else set it
Terminate ==
    /\ term.pc \in {"idle", "ret"}
    /\ term.calls < MaxTerms
    /\ IF isTerminating
       THEN /\ term' = [term EXCEPT !.calls = @ + 1, !.pc = "ret"]
            /\ UNCHANGED <<isTerminating, msgs>>
       ELSE /\ isTerminating' = TRUE
            /\ term' = [term EXCEPT !.calls = @ + 1, !.pc = "maplock",
                                    !.blocked = BlockedPubs]
            /\ msgs' = [m \in DOMAIN msgs |->
                          IF msgs[m].ret = "run" THEN [msgs[m] EXCEPT !.live = {}]
                          ELSE msgs[m]]
    /\ UNCHANGED <<termRest, subsMapLock, subscriptions, subs>>

\* b.subsMapLock.Lock(), held until the end of the range over the map
TermMapLock ==
    /\ term.pc = "maplock"
    /\ subsMapLock = 0
    /\ subsMapLock' = -1
    /\ term' = [term EXCEPT !.pc = "range", !.todo = ensured]
    /\ UNCHANGED <<termRest, isTerminating, subscriptions, subs, msgs>>

\* the next key of the map in whatever order the range yields it, or the
\* end of the range, the unlock and the return
TermRange ==
    /\ term.pc = "range"
    /\ IF term.todo = {}
       THEN /\ subsMapLock' = 0
            /\ term' = [term EXCEPT !.pc = "ret",
                          !.handed = {s \in 1..Len(subs) : subs[s].pc = "live"}]
       ELSE /\ \E a \in term.todo :
                 term' = [term EXCEPT !.act = a, !.snap = subscriptions[a],
                                      !.idx = 0, !.pc = "subs"]
            /\ UNCHANGED subsMapLock
    /\ UNCHANGED <<termRest, isTerminating, subscriptions, subs, msgs>>

\* the next sub of the inner range and b.drain(sub.channel), or after the
\* last one b.subscriptions[action] = make([]*subscription, 0)
TermSub ==
    /\ term.pc = "subs"
    /\ IF term.idx < term.snap.len
       THEN /\ term' = [term EXCEPT
                          !.idx = @ + 1,
                          !.cur = SliceAt(arrays, term.snap, term.idx + 1),
                          !.drains = Append(@, [sub |-> SliceAt(arrays, term.snap,
                                                                term.idx + 1),
                                                pc |-> "select", sig |-> FALSE]),
                          !.pc = "sublock"]
            /\ UNCHANGED subscriptions
       ELSE /\ subscriptions' = [subscriptions EXCEPT ![term.act] = NilSlice]
            /\ term' = [term EXCEPT !.todo = @ \ {term.act}, !.pc = "range"]
    /\ UNCHANGED <<termRest, isTerminating, subsMapLock, subs, msgs>>

\* variant: the channel is left open
TermCloseLeftOpen ==
    /\ term.pc = "sublock"
    /\ ~HoldsRLock(term.cur)
    /\ term' = [term EXCEPT !.drains[Len(term.drains)].sig = TRUE, !.pc = "subs"]
    /\ UNCHANGED <<termRest, isTerminating, subsMapLock, subscriptions, subs, msgs>>

\* sub.lock.Lock once no Publish reads, close(sub.channel) if open, Unlock,
\* close(drainCloseSig)
TermClose ==
    /\ term.pc = "sublock"
    /\ ~HoldsRLock(term.cur)
    /\ subs' = [subs EXCEPT ![term.cur].isOpen = FALSE]
    /\ term' = [term EXCEPT !.drains[Len(term.drains)].sig = TRUE, !.pc = "subs"]
    /\ UNCHANGED <<termRest, isTerminating, subsMapLock, subscriptions, msgs>>

\* a drain goroutine of Terminate: its select, which leaves on the closed signal
TermDrainSelect(d) ==
    /\ term.drains[d].pc = "select"
    /\ term' = [term EXCEPT !.drains[d].pc = IF term.drains[d].sig THEN "done" ELSE "recv"]
    /\ UNCHANGED <<termRest, isTerminating, subsMapLock, subscriptions, subs, msgs>>

\* variant: the drain takes nothing off the channel
TermDrainRecvKeeps(d) ==
    /\ term.drains[d].pc = "recv"
    /\ subs[term.drains[d].sub].chan # <<>> \/ ~subs[term.drains[d].sub].isOpen
    /\ term' = [term EXCEPT !.drains[d].pc = "select"]
    /\ UNCHANGED <<termRest, isTerminating, subsMapLock, subscriptions, subs, msgs>>

\* its <-c: a message, or at once on a closed channel
TermDrainRecv(d) ==
    /\ term.drains[d].pc = "recv"
    /\ subs[term.drains[d].sub].chan # <<>> \/ ~subs[term.drains[d].sub].isOpen
    /\ subs' = [subs EXCEPT ![term.drains[d].sub].chan = IF @ = <<>> THEN @ ELSE Tail(@)]
    /\ term' = [term EXCEPT !.drains[d].pc = "select"]
    /\ UNCHANGED <<termRest, isTerminating, subsMapLock, subscriptions, msgs>>

\* Publish calls up to the number that fills a channel and blocks one more
BlockedPublish(p, a) ==
    /\ Len(msgs) < MaxBlockedMsgs
    /\ PublishBegin(p, a, 0)
    /\ UNCHANGED <<restVars, isTerminating, subsMapLock, ensured, arrays, subscriptions,
                   subs, unsubs>>

\* concurrent Publish, Subscribe and Unsubscribe calls on a running bus
BusNext ==
    \/ \E p \in Pubs, a \in BusActions : Publish(p, a)
    \/ BusStep

MaxFrameUnsubs == 2

\* Unsubscribe, also of a channel that was unsubscribed before
FrameUnsubscribe(s, a) ==
    /\ Len(unsubs) < MaxFrameUnsubs
    /\ UnsubscribeBegin(s, a)

FrameNext ==
    \/ BusNext
    \/ \E s \in 1..Len(subs), a \in BusActions : FrameUnsubscribe(s, a)

---------------------------------------------------------------------------
(* LoggedEventRepo.InsertAndPublish step by step, its Publish running on   *)
(* the bus above (goroutine 1) while subscribers come and go.              *)

MaxCalls == 2

\* model.Event{}: the one event NewEvent cannot return
ZeroEvent == [id |-> 0, agg |-> 0, corr |-> 0, action |-> "", data |-> <<>>]

\* Insert's errors: a blank aggregate id (of an id not yet stored)
StoreInsertErr(index, e) == ~StoreHas(index, e) /\ e.agg = 0

RepoIdle == [pc |-> "idle", event |-> ZeroEvent, events |-> <<>>, err |-> "",
             live |-> {}, msg0 |-> 0, calls |-> 0]

\* NewMemoryTxnResultViewRepo, and a hydrator that has not been called
ViewIdle == [serializedIndex |-> <<>>, index |-> 0, pc |-> "idle",
             events |-> <<>>, numEvents |-> 0]

\* Terminate has not been called
TermIdle ==
    [pc      |-> "idle",
     calls   |-> 0,          \* calls of Terminate so far
     todo    |-> {},         \* keys of b.subscriptions the range has still to visit
     act     |-> "",         \* the key of the current round
     snap    |-> NilSlice,   \* subs of the current round
     idx     |-> 0,
     cur     |-> 0,          \* sub of the inner round
     drains  |-> <<>>,       \* the drain goroutines Terminate started
     handed  |-> {},         \* subscriptions handed out when Terminate returned (history)
     blocked |-> {}]         \* publishers blocked on a full channel when Terminate was called (history)

\* the actions of the pipeline, each with the one component subscribing to it
PipeActions ==
    {"TxnRead", "TxnCreated", "TxnCreateFailed", "DataWritten", "CreateTxn",
     "ProcessTxn", "AccountDeposited", "AccountWithdrawn", "AccountLimitExceeded",
     "DuplicateTxn", "WriteData"}

Components == {"processMgr", "txnCreator", "account", "accountView", "writer", "reader"}

NumCallers == 2
Goroutines == 1..NumCallers

\* a goroutine that has not called the event store or the log yet
CallerIdle ==
    [pc    |-> "idle",       \* "idle", or "remove": between the two locks of Pop
     op    |-> "",           \* the last call
     event |-> ZeroEvent,    \* its event
     arg   |-> 0,            \* its aggregate id or index
     index |-> -1,           \* Pop's index
     had   |-> FALSE,        \* the event's id was stored (logged) at the call (history)
     ret   |-> "",           \* "nil", "err", or "panic"
     out   |-> <<>>]         \* the events returned

NoCallers == [g \in Goroutines |-> CallerIdle]

\* RunRoutines has started the six goroutines; none has subscribed yet
PMIdle ==
    [subd    |-> {},                                \* actions with a subscription
     chan    |-> [a \in PipeActions |-> <<>>],      \* the subscriptions' channels
     pc      |-> [c \in Components |-> IF c = "reader" THEN "run" ELSE "init"],
     ctx     |-> {},                                \* components with a cancelled context
     main    |-> FALSE,                             \* mainCtx is cancelled
     sup     |-> 0,                                 \* the cancel functions RunRoutines has called
     lines   |-> <<>>,                              \* the lines scanned so far
     eof     |-> FALSE,                             \* the scanner has no more lines
     go      |-> {},                                \* commands of the goroutines of pubCreateTxnCmd, pubProcessTxnCmd
     ack     |-> FALSE,                             \* ctxDoneAck
     dones   |-> 0,                                 \* turns of the loop that took the ctx.Done case
     wait    |-> "none",                            \* the goroutine of writeReportAndStopLoop
     waited  |-> "none",                            \* the case its select took (history)
     errChan |-> "open",
     got     |-> {},                                \* the events the Process Manager's loop received (history)
     sent    |-> {},                                \* every message passed to Publish (history)
     handled |-> <<>>,                              \* the line of each command the Account handled (history)
     errs    |-> {},                                \* the keys of routineErrors
     ret     |-> "none",                            \* what RunRoutines returned
     late    |-> "none",                            \* what a Publish after that return returned
     goErr   |-> {},                                \* commands of the goroutines at errChan <- err
     panicked |-> FALSE]                            \* a goroutine has sent on the closed errChan

NoLimits == [dailyAmt |-> 0, dailyCnt |-> 0, weeklyAmt |-> 0, weeklyCnt |-> 0]

StoreInit ==
    /\ eventsIndex = <<>>
    /\ store = [c \in Customers |-> <<>>]
    /\ unpubLog = <<>>
    /\ published = <<>>
    /\ cmds = <<>>

BusRepoInit ==
    /\ StoreInit
    /\ acctCfg = NoLimits
    /\ BusInit
    /\ repo = RepoIdle
    /\ view = ViewIdle
    /\ term = TermIdle
    /\ pm = PMIdle
    /\ callers = NoCallers

SpecBus == BusRepoInit /\ [][BusNext]_vars

SpecFrame == BusRepoInit /\ [][FrameNext]_vars

\* the steps of the calls in flight, of Terminate and of its drain goroutines
TermSteps ==
    \/ \E p \in Pubs : PubEnsure(p)
    \/ \E p \in Pubs : PubSnapshot(p)
    \/ \E p \in Pubs : PubRead(p)
    \/ \E p \in Pubs : PubLock(p)
    \/ \E p \in Pubs : PubSend(p)
    \/ \E s \in 1..Len(subs) : SubCheck(s)
    \/ \E s \in 1..Len(subs) : SubEnsure(s)
    \/ \E s \in 1..Len(subs) : SubAppend(s)
    \/ TermMapLock
    \/ TermRange
    \/ TermSub
    \/ TermClose
    \/ \E d \in 1..Len(term.drains) : TermDrainSelect(d)
    \/ \E d \in 1..Len(term.drains) : TermDrainRecv(d)

\* Publish and Subscribe calls and the subscribers' reads with Terminate among them
TermNext ==
    \/ \E p \in Pubs, a \in BusActions : Publish(p, a)
    \/ \E a \in BusActions : Subscribe(a)
    \/ \E s \in 1..Len(subs) : Receive(s)
    \/ Terminate
    \/ TermSteps

SpecTerm == BusRepoInit /\ [][TermNext]_vars

\* Unsubscribe(c, action) called once Terminate has set isTerminating
LateUnsubscribe(s, a) ==
    /\ isTerminating
    /\ Unsubscribe(s, a)

\* Subscribe calls, Terminate, and Unsubscribe calls on the terminating bus
TermUnsubNext ==
    \/ \E a \in BusActions : Subscribe(a)
    \/ \E s \in 1..Len(subs) : SubCheck(s)
    \/ \E s \in 1..Len(subs) : SubEnsure(s)
    \/ \E s \in 1..Len(subs) : SubAppend(s)
    \/ Terminate
    \/ TermMapLock
    \/ TermRange
    \/ TermSub
    \/ TermClose
    \/ \E d \in 1..Len(term.drains) : TermDrainSelect(d)
    \/ \E d \in 1..Len(term.drains) : TermDrainRecv(d)
    \/ \E s \in 1..Len(subs), a \in BusActions : LateUnsubscribe(s, a)
    \/ \E u \in 1..Len(unsubs) : UnsubSearch(u)
    \/ \E u \in 1..Len(unsubs) : UnsubClose(u)
    \/ \E u \in 1..Len(unsubs) : DrainSelect(u)
    \/ \E u \in 1..Len(unsubs) : DrainRecv(u)

SpecTermUnsub == BusRepoInit /\ [][TermUnsubNext]_vars

MaxBlockedSubs == 1

\* a subscriber that never reads its channel
BlockedSubscribe(a) ==
    /\ Len(subs) < MaxBlockedSubs
    /\ Subscribe(a)

\* Terminate on a bus whose subscribers do not read
BlockedNext ==
    \/ \E p \in Pubs, a \in BusActions : BlockedPublish(p, a)
    \/ \E a \in BusActions : BlockedSubscribe(a)
    \/ Terminate
    \/ TermSteps

SpecBlocked == BusRepoInit /\ [][BlockedNext]_vars

\* every goroutine that can take a step is scheduled in the end: the calls
\* in flight, Terminate and its drains. Nothing makes a caller start a call.
BlockedFairness ==
    /\ \A p \in Pubs : WF_vars(PubEnsure(p) \/ PubSnapshot(p) \/ PubRead(p)
                                 \/ PubLock(p) \/ PubSend(p))
    /\ \A s \in 1..MaxSubs : WF_vars(s <= Len(subs)
                                      /\ (SubCheck(s) \/ SubEnsure(s) \/ SubAppend(s)))
    /\ WF_vars(TermMapLock \/ TermRange \/ TermSub \/ TermClose)
    /\ \A d \in 1..MaxSubs :
         WF_vars(d <= Len(term.drains) /\ (TermDrainSelect(d) \/ TermDrainRecv(d)))

SpecBlockedFair == SpecBlocked /\ BlockedFairness

\* the events a caller can pass: the zero Event, one already stored, a new one
RepoInputs ==
    {ZeroEvent}
      \cup {eventsIndex[i] : i \in 1..Len(eventsIndex)}
      \cup {NewEvent(repo.calls + 1, c, 0, a, <<>>) : c \in Customers, a \in BusActions}

\* InsertAndPublish: unpublishedLog.Insert
RepoInsertAndPublish(e) ==
    /\ repo.pc \in {"idle", "ret"}
    /\ repo.calls < MaxCalls
    /\ unpubLog' = LogInsert(unpubLog, e)
    /\ repo' = [pc |-> "events", event |-> e, events |-> <<>>, err |-> "",
                live |-> LiveSubs(e.action), msg0 |-> Len(msgs),
                calls |-> repo.calls + 1]
    /\ UNCHANGED <<eventsIndex, store, published, acctCfg, cmds, busVars,
                   view, term, pm, callers>>

\* insertAndPubFromlog: the snapshot unpublishedLog.Events()
RepoEvents ==
    /\ repo.pc = "events"
    /\ repo' = [repo EXCEPT !.events = unpubLog, !.pc = "store"]
    /\ UNCHANGED <<eventsIndex, store, unpubLog, published, acctCfg, cmds, busVars,
                   view, term, pm, callers>>

\* the loop head and eventStore.Insert of the next event of the snapshot
RepoStore ==
    /\ repo.pc = "store"
    /\ IF repo.events = <<>>
       THEN /\ repo' = [repo EXCEPT !.pc = "ret"]
            /\ UNCHANGED <<eventsIndex, store>>
       ELSE IF StoreInsertErr(eventsIndex, Head(repo.events))
       THEN /\ repo' = [repo EXCEPT !.pc = "ret", !.err = "store"]
            /\ UNCHANGED <<eventsIndex, store>>
       ELSE /\ eventsIndex' = StoreInsertIndex(eventsIndex, Head(repo.events))
            /\ store' = StoreInsertBucket(eventsIndex, store, Head(repo.events))
            /\ repo' = [repo EXCEPT !.pc = "publish"]
    /\ UNCHANGED <<unpubLog, published, acctCfg, cmds, busVars, view, term, pm, callers>>

\* bus.Publish(event) is entered
RepoPublish ==
    /\ repo.pc = "publish"
    /\ PublishBegin(1, Head(repo.events).action, Head(repo.events).id)
    /\ repo' = [repo EXCEPT !.pc = "pop"]
    /\ UNCHANGED <<eventsIndex, store, unpubLog, published, acctCfg, cmds,
                   isTerminating, subsMapLock, ensured, arrays, subscriptions,
                   subs, unsubs, view, term, pm, callers>>

\* variant: the event is popped whatever Publish returned
RepoPopAnyway ==
    /\ repo.pc = "pop"
    /\ pubs[1].pc = "idle"
    /\ LET e == Head(repo.events)
           i == LogFind(unpubLog, e)
       IN  /\ unpubLog' = LogRemoveAt(unpubLog, i)
           /\ published' = Append(published, e)
           /\ repo' = [repo EXCEPT !.events = Tail(@), !.pc = "store"]
    /\ UNCHANGED <<eventsIndex, store, acctCfg, cmds, busVars, view, term, pm, callers>>

\* Publish has returned: its error ends the call, else unpublishedLog.Pop
RepoPop ==
    /\ repo.pc = "pop"
    /\ pubs[1].pc = "idle"
    /\ LET e == Head(repo.events)
           i == LogFind(unpubLog, e)
       IN  IF msgs[Len(msgs)].ret = "err"
           THEN /\ repo' = [repo EXCEPT !.pc = "ret", !.err = "publish"]
                /\ UNCHANGED <<unpubLog, published>>
           ELSE IF i = 0
           THEN /\ repo' = [repo EXCEPT !.pc = "ret", !.err = "pop"]
                /\ UNCHANGED <<unpubLog, published>>
           ELSE /\ unpubLog' = LogRemoveAt(unpubLog, i)
                /\ published' = Append(published, e)
                /\ repo' = [repo EXCEPT !.events = Tail(@), !.pc = "store"]
    /\ UNCHANGED <<eventsIndex, store, acctCfg, cmds, busVars, view, term, pm, callers>>

RepoNext ==
    \/ \E e \in RepoInputs : RepoInsertAndPublish(e)
    \/ RepoEvents
    \/ RepoStore
    \/ RepoPublish
    \/ RepoPop
    \/ BusStep

SpecRepo == BusRepoInit /\ [][RepoNext]_vars

\* NewLoggedEventRepo over the same event store and unpublished log with a
\* new MemoryBus, once the old bus has terminated: the initial replay of
\* the log.  repo.event stays the last event passed to InsertAndPublish.
RepoNew ==
    /\ repo.pc \in {"idle", "ret"}
    /\ repo.calls < MaxCalls
    /\ term.pc = "ret"
    /\ \A p \in Pubs : pubs[p].pc = "idle"
    /\ \A d \in 1..Len(term.drains) : term.drains[d].pc = "done"
    /\ isTerminating' = FALSE
    /\ subsMapLock' = 0
    /\ ensured' = {}
    /\ arrays' = <<>>
    /\ subscriptions' = [a \in BusActions |-> NilSlice]
    /\ subs' = <<>>
    /\ unsubs' = <<>>
    /\ term' = TermIdle
    /\ repo' = [repo EXCEPT !.pc = "events", !.events = <<>>, !.err = "",
                            !.live = {}, !.msg0 = Len(msgs), !.calls = @ + 1]
    /\ UNCHANGED <<eventsIndex, store, unpubLog, published, acctCfg, cmds,
                   pubs, msgs, view, pm, callers>>

\* the repository's caller on a bus that is terminated under it
FailNext ==
    \/ \E e \in RepoInputs : RepoInsertAndPublish(e)
    \/ RepoEvents
    \/ RepoStore
    \/ RepoPublish
    \/ RepoPop
    \/ RepoNew
    \/ \E a \in BusActions : BlockedSubscribe(a)
    \/ \E s \in 1..Len(subs) : Receive(s)
    \/ Terminate
    \/ TermSteps

SpecFail == BusRepoInit /\ [][FailNext]_vars

---------------------------------------------------------------------------
(* Account aggregate *)

\* newAccount's two cross-checks of the limits
NewAccountOK(cfg) ==
    /\ ~(cfg.weeklyAmt > 0 /\ cfg.weeklyAmt < cfg.dailyAmt)
    /\ ~(cfg.weeklyCnt > 0 /\ cfg.weeklyCnt < cfg.dailyCnt)

newAccount(cfg) ==
    [dailyLimits   |-> [NumTxns |-> cfg.dailyCnt, TotalAmount |-> cfg.dailyAmt],
     weeklyLimits  |-> [NumTxns |-> cfg.weeklyCnt, TotalAmount |-> cfg.weeklyAmt],
     custID        |-> 0,
     dailyTxn      |-> <<>>,
     weeklyTxn     |-> <<>>,
     balance       |-> 0,
     txnKeysRecord |-> <<>>]

EnsureKey(m, k) == IF k \in DOMAIN m THEN m
                   ELSE [x \in DOMAIN m \cup {k} |-> IF x = k THEN <<>> ELSE m[x]]

ensureYear(a, year) ==
    [a EXCEPT !.dailyTxn = EnsureKey(@, year), !.weeklyTxn = EnsureKey(@, year)]

\* m[y][d] of a map[int]map[int]TxnRecord: zero record when a key is missing
RecordAt(m, y, d) ==
    IF y \in DOMAIN m /\ d \in DOMAIN m[y] THEN m[y][d] ELSE ZeroRecord

\* m[y][d] = rec, the year map being present
SetRecord(m, y, d, rec) ==
    [m EXCEPT ![y] = [x \in DOMAIN @ \cup {d} |-> IF x = d THEN rec ELSE @[x]]]

\* the year under which applyEvent files the daily record
ApplyDailyYear(t) == ISOWeek(t)[1]

applyEvent(a, event) ==
    LET state   == UnmarshalState(event.data)
        txnYear == ISOWeek(state.TxnTime)[1]
        txnWeek == ISOWeek(state.TxnTime)[2]
        txnDay  == YearDay(state.TxnTime)
        a1      == ensureYear(ensureYear(a, txnYear), ApplyDailyYear(state.TxnTime))
    IN  [a1 EXCEPT
           !.dailyTxn = SetRecord(@, ApplyDailyYear(state.TxnTime), txnDay, state.DailyTxn),
           !.weeklyTxn = SetRecord(@, txnYear, txnWeek, state.WeeklyTxn),
           !.txnKeysRecord = Append(@, state.TxnID),
           !.balance = state.TotalAmount]

RECURSIVE ApplyAll(_, _)
ApplyAll(a, events) ==
    IF events = <<>> THEN a
    ELSE ApplyAll(applyEvent(a, Head(events)), Tail(events))

\* variant: the replay misses the event stored last
loadAggregateStale(a, custID, events) ==
    ApplyAll([a EXCEPT !.custID = custID],
             IF events = <<>> THEN <<>> ELSE SubSeq(events, 1, Len(events) - 1))

loadAggregate(a, custID, events) == ApplyAll([a EXCEPT !.custID = custID], events)

\* variant: only the most recent key is compared
IsDuplicateLastOnly(a, txn) ==
    /\ a.txnKeysRecord # <<>>
    /\ a.txnKeysRecord[Len(a.txnKeysRecord)] = txn.ID

\* checkDuplicateTxn's scan of txnKeysRecord
IsDuplicate(a, txn) ==
    \E i \in 1..Len(a.txnKeysRecord) : a.txnKeysRecord[i] = txn.ID

\* variant: a limit of 0 is enforced like any other limit
validateLimitsZeroEnforced(a, currValues, limits) ==
    IF a.balance + currValues.TotalAmount < 0
    THEN [cause |-> "InsufficientFunds", err |-> "balance"]
    ELSE IF currValues.NumTxns > limits.NumTxns
    THEN [cause |-> "", err |-> "count"]
    ELSE IF currValues.TotalAmount > limits.TotalAmount
    THEN [cause |-> "", err |-> "amount"]
    ELSE [cause |-> "", err |-> ""]

\* validateLimits: [cause, err]; err = "" means no error
validateLimits(a, currValues, limits) ==
    IF a.balance + currValues.TotalAmount < 0
    THEN [cause |-> "InsufficientFunds", err |-> "balance"]
    ELSE IF limits.NumTxns > 0 /\ currValues.NumTxns > limits.NumTxns
    THEN [cause |-> "", err |-> "count"]
    ELSE IF limits.TotalAmount > 0 /\ currValues.TotalAmount > limits.TotalAmount
    THEN [cause |-> "", err |-> "amount"]
    ELSE [cause |-> "", err |-> ""]

AddTxn(rec, txn) ==
    [NumTxns |-> rec.NumTxns + 1, TotalAmount |-> rec.TotalAmount + txn.LoadAmount]

\* the record checkDailyLimits tries: dailyTxn[civil year][day of year] + txn
DailyTrial(a, txn) ==
    AddTxn(RecordAt(a.dailyTxn, Year(txn.Time), YearDay(txn.Time)), txn)

\* the record checkWeeklyLimits tries: weeklyTxn[ISO year][ISO week] + txn
WeeklyTrial(a, txn) ==
    AddTxn(RecordAt(a.weeklyTxn, ISOWeek(txn.Time)[1], ISOWeek(txn.Time)[2]), txn)

\* variant: the weekly check reports the daily cause
WeeklyCauseAsDaily(v) == IF v.cause = "" THEN "DailyLimitsExceeded" ELSE v.cause

\* failure cause of checkDailyLimits / checkWeeklyLimits
DailyCause(v) == IF v.cause = "" THEN "DailyLimitsExceeded" ELSE v.cause
WeeklyCause(v) == IF v.cause = "" THEN "WeeklyLimitsExceeded" ELSE v.cause

\* variant: a zero amount counts as a withdrawal
AcceptActionZeroWithdrawn(txn) ==
    IF txn.LoadAmount <= 0 THEN "AccountWithdrawn" ELSE "AccountDeposited"

\* event action of an accepted transaction
AcceptAction(txn) ==
    IF txn.LoadAmount < 0 THEN "AccountWithdrawn" ELSE "AccountDeposited"

\* handleProcessTxnCmd after the replay: the events handed to publishEvent,
\* each as [action, data]
Decide(a, txn) ==
    IF IsDuplicate(a, txn)
    THEN << [action |-> "DuplicateTxn",
             data |-> TxnFailure(txn, [trial |-> "duplicate", err |-> "duplicate"],
                                 "DuplicateTxn")] >>
    ELSE LET dv == validateLimits(a, DailyTrial(a, txn), a.dailyLimits)
             wv == validateLimits(a, WeeklyTrial(a, txn), a.weeklyLimits)
         IN  IF dv.err # ""
             THEN << [action |-> "AccountLimitExceeded",
                      data |-> TxnFailure(txn, [trial |-> "daily", err |-> dv.err],
                                          DailyCause(dv))] >>
             ELSE IF wv.err # ""
             THEN << [action |-> "AccountLimitExceeded",
                      data |-> TxnFailure(txn, [trial |-> "weekly", err |-> wv.err],
                                          WeeklyCause(wv))] >>
             ELSE << [action |-> AcceptAction(txn),
                      data |-> State(txn, DailyTrial(a, txn), WeeklyTrial(a, txn),
                                     a.balance + txn.LoadAmount)] >>

\* the account a fresh aggregate holds after loadAggregate and ensureYear
Replayed(cfg, st, txn) ==
    ensureYear(loadAggregate(newAccount(cfg), txn.CustomerID,
                             Fetch(st, txn.CustomerID)),
               Year(txn.Time))

RECURSIVE PublishAll(_, _, _, _)
\* publishEvent for each decided event: NewEvent, then InsertAndPublish
PublishAll(r, custID, cmdID, decided) ==
    IF decided = <<>> THEN r
    ELSE PublishAll(
            InsertAndPublish(r, NewEvent(<<cmdID, Len(decided)>>, custID, cmdID,
                                         Head(decided).action, Head(decided).data)),
            custID, cmdID, Tail(decided))

---------------------------------------------------------------------------
(* The Account command listener: one ProcessTxn command per step *)

\* limits handed to newAccount: none, amounts only, counts only, all four
Configs ==
    { cfg \in { [dailyAmt |-> 0, dailyCnt |-> 0, weeklyAmt |-> 0, weeklyCnt |-> 0],
                [dailyAmt |-> 2, dailyCnt |-> 0, weeklyAmt |-> 3, weeklyCnt |-> 0],
                [dailyAmt |-> 0, dailyCnt |-> 1, weeklyAmt |-> 0, weeklyCnt |-> 1],
                [dailyAmt |-> 2, dailyCnt |-> 2, weeklyAmt |-> 3, weeklyCnt |-> 2] } :
        NewAccountOK(cfg) }

\* Transaction and customer ids are opaque strings that the code only compares
\* for equality: the k-th distinct id to occur is named k.
UsedTxnIDs == {cmds[k].txn.ID : k \in 1..Len(cmds)}
UsedCustomers == {cmds[k].txn.CustomerID : k \in 1..Len(cmds)}
NextTxnIDs == {id \in TxnIDs : id <= Cardinality(UsedTxnIDs) + 1}
NextCustomers == {c \in Customers : c <= Cardinality(UsedCustomers) + 1}

AcctInit ==
    /\ StoreInit
    /\ acctCfg \in Configs
    /\ BusInit
    /\ repo = RepoIdle
    /\ view = ViewIdle
    /\ term = TermIdle
    /\ pm = PMIdle
    /\ callers = NoCallers

\* handleProcessTxnCmd on the store, the log and the published events
ProcessTxnStored(cust, id, amt, t) ==
    /\ LET txn   == [ID |-> id, CustomerID |-> cust, LoadAmount |-> amt, Time |-> t]
           cmdID == Len(cmds) + 1
       IN  \E a \in {Replayed(acctCfg, store, txn)} :
           \E r \in {PublishAll([index |-> eventsIndex, store |-> store,
                                 pub |-> published, log |-> unpubLog],
                                a.custID, cmdID, Decide(a, txn))} :
             /\ eventsIndex' = r.index
             /\ store' = r.store
             /\ published' = r.pub
             /\ unpubLog' = r.log
             /\ cmds' = Append(cmds, [id |-> cmdID, txn |-> txn])
    /\ UNCHANGED acctCfg

HandleProcessTxnCmd(cust, id, amt, t) ==
    /\ Len(cmds) < MaxCmds
    /\ ProcessTxnStored(cust, id, amt, t)
    /\ UNCHANGED <<busVars, repo, view, term, pm, callers>>

AcctNext ==
    \E cust \in NextCustomers, id \in NextTxnIDs, amt \in Amounts, t \in TxnTimes :
        HandleProcessTxnCmd(cust, id, amt, t)

SpecAcct == AcctInit /\ [][AcctNext]_vars

\* The same listener with the commands of one customer more, which come in
\* any interleaving with those of the others.
MaxIsolCmds == 3

IsolCustomers == 1..(NumCusts + 1)
IsolTxnIDs == {1, 2}
IsolTimes == {5, 7}

IsolInit ==
    /\ eventsIndex = <<>>
    /\ store = [c \in IsolCustomers |-> <<>>]
    /\ unpubLog = <<>>
    /\ published = <<>>
    /\ cmds = <<>>
    /\ acctCfg \in Configs
    /\ BusInit
    /\ repo = RepoIdle
    /\ view = ViewIdle
    /\ term = TermIdle
    /\ pm = PMIdle
    /\ callers = NoCallers

IsolNext ==
    \E cust \in IsolCustomers, id \in IsolTxnIDs, amt \in Amounts, t \in IsolTimes :
        /\ Len(cmds) < MaxIsolCmds
        /\ cust <= Cardinality(UsedCustomers) + 1
        /\ id <= Cardinality(UsedTxnIDs) + 1
        /\ ProcessTxnStored(cust, id, amt, t)
        /\ UNCHANGED <<busVars, repo, view, term, pm, callers>>

SpecIsol == IsolInit /\ [][IsolNext]_vars

---------------------------------------------------------------------------
(* The account view: MemoryTxnResultViewRepo and txnResultView.hydrate,    *)
(* called by the one goroutine of the view's event listener while the      *)
(* Account goroutine keeps inserting events into the same event store.     *)

\* the Txn a json.Unmarshal leaves untouched
ZeroTxn == [ID |-> 0, CustomerID |-> 0, LoadAmount |-> 0, Time |-> ZeroTime]

\* variant: no key of the document matches a field of TxnFailure
UnmarshalTxnFailureNoKeys(data) ==
    [kind |-> "TxnFailure", Txn |-> ZeroTxn, Error |-> "", FailureCause |-> ""]

\* json.Unmarshal(event.Data(), &TxnFailure{})
UnmarshalTxnFailure(data) ==
    IF data.kind = "TxnFailure" THEN data
    ELSE [kind |-> "TxnFailure", Txn |-> ZeroTxn, Error |-> "", FailureCause |-> ""]

TxnResultEntry(id, custID, accepted) ==
    [ID |-> id, CustomerID |-> custID, Accepted |-> accepted]

\* json.Marshal(result): the text of one JSON object, which holds no line feed
Marshal(result) == <<"{", result.ID, result.CustomerID, result.Accepted, "}">>

LineFeed == <<"\n">>

\* MemoryTxnResultViewRepo.Insert
ViewInsert(v, result) ==
    [v EXCEPT !.serializedIndex = Append(Append(@, Marshal(result)), LineFeed),
              !.index = @ + 1]

\* variant: the trailing line feed is kept
SerializedUntrimmed(v) == v.serializedIndex

\* MemoryTxnResultViewRepo.Serialized: the bytes without one trailing line feed
Serialized(v) ==
    IF Len(v.serializedIndex) > 0 /\ v.serializedIndex[Len(v.serializedIndex)] = LineFeed
    THEN SubSeq(v.serializedIndex, 1, Len(v.serializedIndex) - 1)
    ELSE v.serializedIndex

\* MemoryTxnResultViewRepo.Index
Index(v) == v.index

\* hydrate: eventRepo.FetchByIndex(resultRepo.Index())
Fetched(v) ==
    [v EXCEPT !.events = FetchByIndex(eventsIndex, Index(v)),
              !.numEvents = Len(eventsIndex),
              !.pc = "loop"]

HydrateFetch ==
    /\ view.pc \in {"idle", "ret"}
    /\ view' = Fetched(view)
    /\ UNCHANGED <<acctVars, busVars, repo, term, pm, callers>>

\* hydrate: one turn of the loop over the fetched events, or its return
HydrateEvent ==
    /\ view.pc = "loop"
    /\ IF view.events = <<>>
       THEN view' = [view EXCEPT !.pc = "ret"]
       ELSE LET event == Head(view.events)
            IN  IF event.action \in {"AccountDeposited", "AccountWithdrawn"}
                THEN LET txnState == UnmarshalState(event.data)
                     IN  view' = [ViewInsert(view, TxnResultEntry(txnState.TxnID,
                                                                  txnState.CustID, TRUE))
                                    EXCEPT !.events = Tail(@)]
                ELSE IF event.action \in {"DuplicateTxn", "AccountLimitExceeded"}
                THEN LET txnFailure == UnmarshalTxnFailure(event.data)
                     IN  view' = [ViewInsert(view, TxnResultEntry(txnFailure.Txn.ID,
                                                                  txnFailure.Txn.CustomerID,
                                                                  FALSE))
                                    EXCEPT !.events = Tail(@)]
                ELSE view' = [view EXCEPT !.pc = "err"]
    /\ UNCHANGED <<acctVars, busVars, repo, term, pm, callers>>

ViewNext ==
    \/ AcctNext
    \/ HydrateFetch
    \/ HydrateEvent

SpecView == AcctInit /\ [][ViewNext]_vars

---------------------------------------------------------------------------
(* The pipeline of RunRoutines: Reader, Process Manager, Transaction        *)
(* Creator, Account, account view and Writer, each a goroutine, on one      *)
(* running bus.  Every action of the pipeline has one subscriber, so a      *)
(* Publish is one send on that subscriber's channel: it is dropped when     *)
(* nobody has subscribed yet and blocks while the channel is full.  A       *)
(* handler that publishes is one step, taken when its Publish can send.     *)

MaxLines == 1
MaxDones == 2

\* the actions a component subscribes to, in the order of its Init function
SubOrder(c) ==
    CASE c = "processMgr"  -> <<"TxnRead", "TxnCreated", "TxnCreateFailed", "DataWritten">>
      [] c = "txnCreator"  -> <<"CreateTxn">>
      [] c = "account"     -> <<"ProcessTxn">>
      [] c = "accountView" -> <<"AccountDeposited", "AccountWithdrawn",
                                "AccountLimitExceeded", "DuplicateTxn">>
      [] c = "writer"      -> <<"WriteData">>
      [] OTHER             -> <<>>

SubActions(c) == {SubOrder(c)[i] : i \in 1..Len(SubOrder(c))}

\* the bytes a message carries: a line of the input (blank, not a JSON
\* document, a request createTxn refuses, a request of a transaction), a
\* Transaction, the payload of an account event, or the report
Data(kind, txn, text) == [kind |-> kind, txn |-> txn, text |-> text]

Line(kind, txn) == Data(kind, txn, <<>>)

LinePayloads ==
    {Line("blank", ZeroTxn), Line("notjson", ZeroTxn), Line("refused", ZeroTxn)}
      \cup {Line("req", [ID |-> i, CustomerID |-> 1, LoadAmount |-> 1, Time |-> 5]) :
              i \in {j \in TxnIDs : j <= Len(pm.lines) + 1}}

\* the k-th message of an action that the n-th line has led to
Msg(q, action, n, corr, data) ==
    [action |-> action, line |-> n,
     id |-> <<action, n, 1 + Cardinality({m \in q.sent : m.msg.action = action
                                                          /\ m.msg.line = n})>>,
     corr |-> corr, data |-> data]

\* MemoryBus.Publish on the running bus, seen from the publisher
CanPublish(action) == action \notin pm.subd \/ Len(pm.chan[action]) < ChanCap

Published(q, msg) ==
    [q EXCEPT !.chan[msg.action] = IF msg.action \in q.subd THEN Append(@, msg) ELSE @,
              !.sent = @ \cup {[msg |-> msg, to |-> msg.action \in q.subd]}]

\* the receive of a listener's select
Received(q, action) == [q EXCEPT !.chan[action] = Tail(@)]

\* variant: the error a routine returns with is dropped
ReturnedNil(q, c, err) ==
    [q EXCEPT !.pc[c] = "nil",
              !.subd = @ \ SubActions(c),
              !.chan = [a \in PipeActions |-> IF a \in SubActions(c) THEN <<>> ELSE @[a]],
              !.ctx = @ \cup {c},
              !.main = TRUE]

\* a component's goroutine returns: its deferred unsubscribe closes and drains
\* its channels, then run* calls cancel() and mainCancel()
Returned(q, c, err) ==
    [q EXCEPT !.pc[c] = IF err THEN "err" ELSE "nil",
              !.subd = @ \ SubActions(c),
              !.chan = [a \in PipeActions |-> IF a \in SubActions(c) THEN <<>> ELSE @[a]],
              !.ctx = @ \cup {c},
              !.main = TRUE]

pipeRest == <<busVars, repo, term, callers>>

\* Init*: the next Bus.Subscribe of a component; after the last one its loop runs
PipeSubscribe(c) ==
    /\ pm.pc[c] = "init"
    /\ LET n == Cardinality(pm.subd \cap SubActions(c)) + 1
       IN  pm' = [pm EXCEPT !.subd = @ \cup {SubOrder(c)[n]},
                            !.pc[c] = IF n = Len(SubOrder(c)) THEN "run" ELSE @]
    /\ UNCHANGED <<acctVars, view, pipeRest>>

\* Reader.Start: one scanned line; the scanner's end; a cancelled context
ReaderScan(payload) ==
    /\ pm.pc["reader"] = "run"
    /\ "reader" \notin pm.ctx
    /\ ~pm.eof
    /\ \E q \in {[pm EXCEPT !.lines = Append(@, payload)]} :
          IF payload.kind = "blank" THEN pm' = q
          ELSE /\ CanPublish("TxnRead")
               /\ pm' = Published(q, Msg(q, "TxnRead", Len(q.lines), <<>>, payload))
    /\ UNCHANGED <<acctVars, view, pipeRest>>

ReaderLine(payload) ==
    /\ Len(pm.lines) < MaxLines
    /\ ReaderScan(payload)

ReaderReturn ==
    /\ pm.pc["reader"] = "run"
    /\ pm' = Returned([pm EXCEPT !.eof = "reader" \notin pm.ctx], "reader", FALSE)
    /\ UNCHANGED <<acctVars, view, pipeRest>>

\* processMgr.start: the case of eventSubs[txnRead] and pubCreateTxnCmd, which
\* starts a goroutine that will publish the CreateTxn command
PMTxnRead ==
    /\ pm.pc["processMgr"] = "run"
    /\ pm.chan["TxnRead"] # <<>>
    /\ LET event == Head(pm.chan["TxnRead"])
       IN  pm' = [Received(pm, "TxnRead") EXCEPT
                    !.got = @ \cup {event},
                    !.go = @ \cup {[action |-> "CreateTxn", line |-> event.line,
                                    corr |-> event.id, data |-> event.data]}]
    /\ UNCHANGED <<acctVars, view, pipeRest>>

\* the case of eventSubs[txnCreated] and pubProcessTxnCmd
PMTxnCreated ==
    /\ pm.pc["processMgr"] = "run"
    /\ pm.chan["TxnCreated"] # <<>>
    /\ LET event == Head(pm.chan["TxnCreated"])
       IN  pm' = [Received(pm, "TxnCreated") EXCEPT
                    !.got = @ \cup {event},
                    !.go = @ \cup {[action |-> "ProcessTxn", line |-> event.line,
                                    corr |-> event.id, data |-> event.data]}]
    /\ UNCHANGED <<acctVars, view, pipeRest>>

\* the case of eventSubs[txnCreateFailed] and logCreateTxnFailure
PMTxnCreateFailed ==
    /\ pm.pc["processMgr"] = "run"
    /\ pm.chan["TxnCreateFailed"] # <<>>
    /\ pm' = [Received(pm, "TxnCreateFailed") EXCEPT
                !.got = @ \cup {Head(pm.chan["TxnCreateFailed"])}]
    /\ UNCHANGED <<acctVars, view, pipeRest>>

\* variant: the command is created without its correlation key
PMPublishCmdNoKey(c) ==
    /\ c \in pm.go
    /\ CanPublish(c.action)
    /\ pm' = Published([pm EXCEPT !.go = @ \ {c}],
                       Msg(pm, c.action, c.line, <<>>, c.data))
    /\ UNCHANGED <<acctVars, view, pipeRest>>

\* a goroutine of pubCreateTxnCmd or pubProcessTxnCmd: NewCmd, bus.Publish
PMPublishCmd(c) ==
    /\ c \in pm.go
    /\ CanPublish(c.action)
    /\ pm' = Published([pm EXCEPT !.go = @ \ {c}],
                       Msg(pm, c.action, c.line, c.corr, c.data))
    /\ UNCHANGED <<acctVars, view, pipeRest>>

\* variant: ctxDoneAck is not consulted
PMCtxDoneNoAck ==
    /\ pm.pc["processMgr"] = "run"
    /\ "processMgr" \in pm.ctx
    /\ pm.dones < MaxDones
    /\ CanPublish("WriteData")
    /\ pm' = Published([pm EXCEPT !.ack = TRUE, !.dones = @ + 1, !.wait = "select"],
                       Msg(pm, "WriteData", 0, <<>>,
                           Data("report", ZeroTxn, Serialized(view))))
    /\ UNCHANGED <<acctVars, view, pipeRest>>

\* the case of ctx.Done: the first time writeReportAndStopLoop publishes the
\* WriteData command and starts the goroutine that waits for the answer;
\* every later time the loop just goes on
PMCtxDone ==
    /\ pm.pc["processMgr"] = "run"
    /\ "processMgr" \in pm.ctx
    /\ pm.dones < MaxDones
    /\ IF pm.ack
       THEN pm' = [pm EXCEPT !.dones = @ + 1]
       ELSE /\ CanPublish("WriteData")
            /\ pm' = Published([pm EXCEPT !.ack = TRUE, !.dones = @ + 1,
                                          !.wait = "select"],
                               Msg(pm, "WriteData", 0, <<>>,
                                   Data("report", ZeroTxn, Serialized(view))))
    /\ UNCHANGED <<acctVars, view, pipeRest>>

\* the waiting goroutine: time.After fires first
WaitTimeout ==
    /\ pm.wait = "select"
    /\ pm' = [pm EXCEPT !.wait = "send", !.waited = "timeout"]
    /\ UNCHANGED <<acctVars, view, pipeRest>>

\* the waiting goroutine: a message of eventSubs[reportWritten] comes first
WaitReportWritten ==
    /\ pm.wait = "select"
    /\ pm.chan["DataWritten"] # <<>>
    /\ pm' = [Received(pm, "DataWritten") EXCEPT !.wait = "close", !.waited = "event"]
    /\ UNCHANGED <<acctVars, view, pipeRest>>

\* close(errChan)
WaitClose ==
    /\ pm.wait = "close"
    /\ pm' = [pm EXCEPT !.wait = "done", !.errChan = "closed"]
    /\ UNCHANGED <<acctVars, view, pipeRest>>

\* the case of errChan: the goroutine's error is handed over on the unbuffered
\* channel and start returns it; the closed channel yields nil, which
\* errors.Wrap leaves nil
PMErrChan ==
    /\ pm.pc["processMgr"] = "run"
    /\ \/ /\ pm.wait = "send"
          /\ pm' = Returned([pm EXCEPT !.wait = "close"], "processMgr", TRUE)
       \/ /\ pm.errChan = "closed"
          /\ pm' = Returned(pm, "processMgr", FALSE)
    /\ UNCHANGED <<acctVars, view, pipeRest>>

\* txn cmdListener.start: the case of a CreateTxn command and
\* handleCreateTxnCmd.  A document json.Unmarshal refuses ends the listener
\* with an error; a request createTxn refuses gives TxnCreateFailed.
CreatorHandle ==
    /\ pm.pc["txnCreator"] = "run"
    /\ pm.chan["CreateTxn"] # <<>>
    /\ LET cmd == Head(pm.chan["CreateTxn"])
           q   == Received(pm, "CreateTxn")
       IN  IF cmd.data.kind = "notjson"
           THEN pm' = Returned(q, "txnCreator", TRUE)
           ELSE IF cmd.data.kind = "req"
           THEN /\ CanPublish("TxnCreated")
                /\ pm' = Published(q, Msg(q, "TxnCreated", cmd.line, cmd.id,
                                      Data("txn", cmd.data.txn, <<>>)))
           ELSE /\ CanPublish("TxnCreateFailed")
                /\ pm' = Published(q, Msg(q, "TxnCreateFailed", cmd.line, cmd.id, cmd.data))
    /\ UNCHANGED <<acctVars, view, pipeRest>>

\* account cmdListener.start: the case of a ProcessTxn command and
\* handleProcessTxnCmd, whose event goes to the store and to the bus
AccountHandle ==
    /\ pm.pc["account"] = "run"
    /\ pm.chan["ProcessTxn"] # <<>>
    /\ LET cmd == Head(pm.chan["ProcessTxn"])
           txn == cmd.data.txn
           q   == [Received(pm, "ProcessTxn") EXCEPT !.handled = Append(@, cmd.line)]
       IN  \E decided \in {Decide(Replayed(acctCfg, store, txn), txn)[1].action} :
             /\ CanPublish(decided)
             /\ ProcessTxnStored(txn.CustomerID, txn.ID, txn.LoadAmount, txn.Time)
             /\ pm' = Published(q, Msg(q, decided, cmd.line, cmd.id,
                                        Data("event", txn, <<>>)))
    /\ UNCHANGED <<view, pipeRest>>

\* eventListener.start: the case of one of the four subscriptions; hydrate
\* starts with its fetch and goes on with HydrateEvent
ViewReceive(a) ==
    /\ pm.pc["accountView"] = "run"
    /\ view.pc \in {"idle", "ret"}
    /\ a \in SubActions("accountView")
    /\ pm.chan[a] # <<>>
    /\ pm' = Received(pm, a)
    /\ view' = Fetched(view)
    /\ UNCHANGED <<acctVars, pipeRest>>

\* writer cmdListener.start: the case of a WriteData command; write prints
\* the data, publishes DataWritten, and the listener returns
WriterHandle ==
    /\ pm.pc["writer"] = "run"
    /\ pm.chan["WriteData"] # <<>>
    /\ CanPublish("DataWritten")
    /\ LET cmd == Head(pm.chan["WriteData"])
           q   == Received(pm, "WriteData")
       IN  pm' = Returned(Published(q, Msg(q, "DataWritten", 0, cmd.id, cmd.data)),
                          "writer", FALSE)
    /\ UNCHANGED <<acctVars, view, pipeRest>>

\* variant: the listener unsubscribes and goes on with its loop
ListenerDoneStays(c) ==
    /\ c \in {"txnCreator", "account", "accountView", "writer"}
    /\ pm.pc[c] = "run"
    /\ c \in pm.ctx
    /\ c = "accountView" => view.pc \in {"idle", "ret"}
    /\ pm' = [pm EXCEPT !.subd = @ \ SubActions(c)]
    /\ UNCHANGED <<acctVars, view, pipeRest>>

\* the case of ctx.Done of the four listeners: unsubscribe and return
ListenerDone(c) ==
    /\ c \in {"txnCreator", "account", "accountView", "writer"}
    /\ pm.pc[c] = "run"
    /\ c \in pm.ctx
    /\ c = "accountView" => view.pc \in {"idle", "ret"}
    /\ pm' = Returned(pm, c, FALSE)
    /\ UNCHANGED <<acctVars, view, pipeRest>>

\* RunRoutines after <-mainCtx.Done() and its sleep: the next cancel function,
\* called when the routine cancelled before has returned
CancelOrder == <<"reader", "txnCreator", "account", "processMgr", "accountView", "writer">>

\* the key RunRoutines files a routine's error under
RoutineName(c) == IF c = "accountView" THEN "txnResultView" ELSE c

\* routineErrors after the Wait of the routine cancelled last
RoutineErrors(q) ==
    IF q.sup > 0 /\ q.pc[CancelOrder[q.sup]] = "err"
    THEN q.errs \cup {RoutineName(CancelOrder[q.sup])}
    ELSE q.errs

\* variant: the next cancel function is called without the Wait before it
RoutinesCancelNoWait ==
    /\ pm.main
    /\ pm.sup < Len(CancelOrder)
    /\ pm' = [pm EXCEPT !.sup = @ + 1, !.ctx = @ \cup {CancelOrder[pm.sup + 1]},
                        !.errs = RoutineErrors(pm)]
    /\ UNCHANGED <<acctVars, view, pipeRest>>

RoutinesCancel ==
    /\ pm.main
    /\ pm.sup < Len(CancelOrder)
    /\ pm.sup > 0 => pm.pc[CancelOrder[pm.sup]] \in {"nil", "err"}
    /\ pm' = [pm EXCEPT !.sup = @ + 1, !.ctx = @ \cup {CancelOrder[pm.sup + 1]},
                        !.errs = RoutineErrors(pm)]
    /\ UNCHANGED <<acctVars, view, pipeRest>>

\* variant: RunRoutines returns nil whatever the routines returned
RoutinesReturnNil ==
    /\ pm.sup = Len(CancelOrder)
    /\ pm.pc[CancelOrder[pm.sup]] \in {"nil", "err"}
    /\ pm.ret = "none"
    /\ pm' = [pm EXCEPT !.errs = RoutineErrors(pm), !.ret = "nil"]
    /\ UNCHANGED <<acctVars, view, pipeRest>>

\* the Wait of the Writer has returned: RunRoutines returns nil, or the
\* error made of the entries of routineErrors
RoutinesReturn ==
    /\ pm.sup = Len(CancelOrder)
    /\ pm.pc[CancelOrder[pm.sup]] \in {"nil", "err"}
    /\ pm.ret = "none"
    /\ pm' = [pm EXCEPT !.errs = RoutineErrors(pm),
                        !.ret = IF RoutineErrors(pm) = {} THEN "nil" ELSE "err"]
    /\ UNCHANGED <<acctVars, view, pipeRest>>

PipeNext ==
    \/ \E c \in Components : PipeSubscribe(c)
    \/ \E payload \in LinePayloads : ReaderLine(payload)
    \/ ReaderReturn
    \/ PMTxnRead
    \/ PMTxnCreated
    \/ PMTxnCreateFailed
    \/ \E c \in pm.go : PMPublishCmd(c)
    \/ PMCtxDone
    \/ WaitTimeout
    \/ WaitReportWritten
    \/ WaitClose
    \/ PMErrChan
    \/ CreatorHandle
    \/ AccountHandle
    \/ \E a \in PipeActions : ViewReceive(a)
    \/ HydrateEvent
    \/ WriterHandle
    \/ \E c \in Components : ListenerDone(c)
    \/ RoutinesCancel
    \/ RoutinesReturn

SpecPipe == AcctInit /\ [][PipeNext]_vars

\* The way of two transactions of one customer from the Reader to the
\* Account: the Reader, the Process Manager, the TxnCreator and the Account.
MaxOrderLines == 2

OrderComponents == {"processMgr", "txnCreator", "account"}

OrderPayloads ==
    {Line("req", [ID |-> Len(pm.lines) + 1, CustomerID |-> 1, LoadAmount |-> 1,
                  Time |-> 5])}

OrderReaderLine(payload) ==
    /\ Len(pm.lines) < MaxOrderLines
    /\ OrderComponents \subseteq {c \in Components : pm.pc[c] = "run"}
    /\ ReaderScan(payload)

OrderNext ==
    \/ \E c \in OrderComponents : PipeSubscribe(c)
    \/ \E payload \in OrderPayloads : OrderReaderLine(payload)
    \/ PMTxnRead
    \/ PMTxnCreated
    \/ \E c \in pm.go : PMPublishCmd(c)
    \/ CreatorHandle
    \/ AccountHandle

SpecOrder == AcctInit /\ [][OrderNext]_vars

\* The Process Manager alone on the bus (process_mgr_test.go): TxnRead events
\* are published, the Process Manager's context is cancelled, and the bus is
\* terminated, in any order.  CreateTxn and WriteData have no subscriber.
MaxForwardLines == 2

\* the panic of a goroutine ends the program
ForwardRunning == ~pm.panicked

ForwardSubscribe ==
    /\ ForwardRunning
    /\ ~isTerminating
    /\ PipeSubscribe("processMgr")

\* a TxnRead event is published on the running bus
ForwardLine(payload) ==
    /\ ForwardRunning
    /\ ~isTerminating
    /\ Len(pm.lines) < MaxForwardLines
    /\ pm.pc["processMgr"] = "run"
    /\ ReaderScan(payload)

\* the goroutine of pubCreateTxnCmd: its Publish on the running bus
ForwardPublish(c) ==
    /\ ForwardRunning
    /\ ~isTerminating
    /\ PMPublishCmd(c)

\* the goroutine of pubCreateTxnCmd: its Publish returns the error of the
\* terminating bus
ForwardFail(c) ==
    /\ ForwardRunning
    /\ isTerminating
    /\ c \in pm.go
    /\ pm' = [pm EXCEPT !.go = @ \ {c}, !.goErr = @ \cup {c}]
    /\ UNCHANGED <<acctVars, view, pipeRest>>

\* errChan <- err of that goroutine: start's loop receives it and returns the
\* error; on the closed channel the send panics
ForwardSendErr(c) ==
    /\ ForwardRunning
    /\ c \in pm.goErr
    /\ IF pm.errChan = "closed"
       THEN pm' = [pm EXCEPT !.goErr = @ \ {c}, !.panicked = TRUE]
       ELSE /\ pm.pc["processMgr"] = "run"
            /\ pm' = Returned([pm EXCEPT !.goErr = @ \ {c}], "processMgr", TRUE)
    /\ UNCHANGED <<acctVars, view, pipeRest>>

\* processMgrCancel()
ForwardCancel ==
    /\ ForwardRunning
    /\ "processMgr" \notin pm.ctx
    /\ pm' = [pm EXCEPT !.ctx = @ \cup {"processMgr"}]
    /\ UNCHANGED <<acctVars, view, pipeRest>>

\* the case of ctx.Done: on the terminating bus the Publish of
\* writeReportAndStopLoop fails and start returns its error
ForwardCtxDone ==
    /\ ForwardRunning
    /\ IF isTerminating /\ ~pm.ack
       THEN /\ pm.pc["processMgr"] = "run"
            /\ "processMgr" \in pm.ctx
            /\ pm' = Returned([pm EXCEPT !.ack = TRUE], "processMgr", TRUE)
            /\ UNCHANGED <<acctVars, view, pipeRest>>
       ELSE PMCtxDone

\* Terminate: isTerminating = true
ForwardTerminate ==
    /\ ForwardRunning
    /\ ~isTerminating
    /\ isTerminating' = TRUE
    /\ UNCHANGED <<acctVars, view, pm, repo, term, callers, subsMapLock, ensured,
                   arrays, subscriptions, subs, pubs, msgs, unsubs>>

ForwardNext ==
    \/ ForwardSubscribe
    \/ \E payload \in OrderPayloads : ForwardLine(payload)
    \/ ForwardRunning /\ PMTxnRead
    \/ \E c \in pm.go : ForwardPublish(c)
    \/ \E c \in pm.go : ForwardFail(c)
    \/ \E c \in pm.goErr : ForwardSendErr(c)
    \/ ForwardCancel
    \/ ForwardCtxDone
    \/ ForwardRunning /\ WaitTimeout
    \/ ForwardRunning /\ WaitClose
    \/ ForwardRunning /\ PMErrChan
    \/ ForwardTerminate

SpecForward == AcctInit /\ [][ForwardNext]_vars

\* MemoryBus.Publish called once RunRoutines has returned: the error of the
\* isTerminating check, or else the send to the action's subscriber if any
LatePublish(action) ==
    /\ pm.ret # "none"
    /\ pm.late = "none"
    /\ IF isTerminating
       THEN pm' = [pm EXCEPT !.late = "err"]
       ELSE /\ CanPublish(action)
            /\ pm' = [Published(pm, Msg(pm, action, 0, <<>>, Line("blank", ZeroTxn)))
                         EXCEPT !.late = "nil"]
    /\ UNCHANGED <<acctVars, view, pipeRest>>

PipeLateNext ==
    \/ PipeNext
    \/ \E action \in PipeActions : LatePublish(action)

SpecPipeLate == AcctInit /\ [][PipeLateNext]_vars

\* Every goroutine that can take a step is scheduled in the end, a started
\* timer fires unless the select has left before, and a select that stays
\* ready for a case takes it in the end.
PipeFairness ==
    /\ \A c \in Components : WF_vars(PipeSubscribe(c))
    /\ WF_vars(PMTxnRead)
    /\ WF_vars(PMTxnCreated)
    /\ WF_vars(PMTxnCreateFailed)
    /\ WF_vars(\E c \in pm.go : PMPublishCmd(c))
    /\ WF_vars(WaitTimeout)
    /\ WF_vars(WaitClose)
    /\ WF_vars(PMErrChan)
    /\ WF_vars(CreatorHandle)
    /\ WF_vars(AccountHandle)
    /\ WF_vars(\E a \in PipeActions : ViewReceive(a))
    /\ WF_vars(HydrateEvent)
    /\ WF_vars(WriterHandle)

SpecPipeFair == SpecPipe /\ PipeFairness

\* The goroutine of RunRoutines is scheduled and its sleep ends; the Reader's
\* loop comes to its select and to the end of its input; a select whose
\* ctx.Done case stays ready takes it in the end.
ShutdownFairness ==
    /\ WF_vars(RoutinesCancel)
    /\ WF_vars(RoutinesReturn)
    /\ WF_vars(ReaderReturn)
    /\ WF_vars(PMCtxDone)
    /\ \A c \in Components : WF_vars(ListenerDone(c))

SpecPipeShutdown == SpecPipe /\ PipeFairness /\ ShutdownFairness

---------------------------------------------------------------------------
(* The Transaction Creator: creator.handleCreateTxnCmd and createTxn on the *)
(* creator's own LoggedEventRepo, one CreateTxn command per step.  A string *)
(* of the request is the sequence of its characters; an id is a number, 0   *)
(* for the empty string; a time string is the layout it is written in and   *)
(* the day it names.                                                        *)

MaxCreatorCmds == 2

\* the aggregate id "-" of a failure event
DashAggregate == -1

\* globalcfg.TxnRequestTimeFmt
DefaultTimeFmt == "default"

CreatorAggregates == {DashAggregate} \cup (1..2)

\* request strings for load_amount: "", "$", "1", "$1", "$x", "1$", "12"
LoadAmounts ==
    {<<>>, <<"$">>, <<"1">>, <<"$", "1">>, <<"$", "x">>, <<"1", "$">>, <<"1", "2">>}

\* request strings for time: none, a day in the default layout, a day in
\* another layout
TimeStrings ==
    {[layout |-> "", day |-> 0], [layout |-> DefaultTimeFmt, day |-> 5],
     [layout |-> "custom", day |-> 5]}

CreateTxnReqs ==
    [ID : 0..2, CustomerID : 0..1, LoadAmount : LoadAmounts, Time : TimeStrings,
     TimeFmt : {"", "custom"}]

\* &CreateTxnReq{}: what json.Unmarshal fills
ZeroReq == [ID |-> 0, CustomerID |-> 0, LoadAmount |-> <<>>,
            Time |-> [layout |-> "", day |-> 0], TimeFmt |-> ""]

\* the data of a CreateTxn command: none, bytes that are no JSON document of
\* a request, or the document of a request
CmdPayloads ==
    {[kind |-> "nil", req |-> ZeroReq], [kind |-> "notjson", req |-> ZeroReq]}
      \cup {[kind |-> "req", req |-> r] : r \in CreateTxnReqs}

\* strings.ReplaceAll(s, "$", "")
WithoutDollar(s) == SelectSeq(s, LAMBDA c : c # "$")

IsDigit(c) == c \in {"1", "2"}

DigitValue(c) == IF c = "1" THEN 1 ELSE 2

\* strconv.ParseFloat succeeds on the strings of digits
ParsesAsFloat(s) == s # <<>> /\ \A i \in 1..Len(s) : IsDigit(s[i])

RECURSIVE ParseFloat(_)
ParseFloat(s) ==
    IF s = <<>> THEN 0
    ELSE 10 * ParseFloat(SubSeq(s, 1, Len(s) - 1)) + DigitValue(s[Len(s)])

\* variant: the transaction carries the customer id as its id
createTxnSwapped(req) ==
    IF req.ID = 0 THEN [ok |-> FALSE, req |-> req, txn |-> ZeroTxn]
    ELSE IF req.CustomerID = 0 THEN [ok |-> FALSE, req |-> req, txn |-> ZeroTxn]
    ELSE IF req.LoadAmount = <<>> \/ Tail(req.LoadAmount) = <<>>
    THEN [ok |-> FALSE, req |-> req, txn |-> ZeroTxn]
    ELSE IF ~ParsesAsFloat(WithoutDollar(req.LoadAmount))
    THEN [ok |-> FALSE, req |-> req, txn |-> ZeroTxn]
    ELSE LET r == IF req.TimeFmt = "" THEN [req EXCEPT !.TimeFmt = DefaultTimeFmt]
                  ELSE req
         IN  IF r.Time.layout # r.TimeFmt
             THEN [ok |-> FALSE, req |-> r, txn |-> ZeroTxn]
             ELSE [ok |-> TRUE, req |-> r,
                   txn |-> [ID |-> r.CustomerID, CustomerID |-> r.CustomerID,
                            LoadAmount |-> ParseFloat(WithoutDollar(r.LoadAmount)),
                            Time |-> r.Time.day]]

\* createTxn: the Transaction of a request, or the refusal; req is the
\* request as createTxn leaves it (the default layout filled in)
createTxn(req) ==
    IF req.ID = 0 THEN [ok |-> FALSE, req |-> req, txn |-> ZeroTxn]
    ELSE IF req.CustomerID = 0 THEN [ok |-> FALSE, req |-> req, txn |-> ZeroTxn]
    ELSE IF req.LoadAmount = <<>> \/ Tail(req.LoadAmount) = <<>>
    THEN [ok |-> FALSE, req |-> req, txn |-> ZeroTxn]
    ELSE IF ~ParsesAsFloat(WithoutDollar(req.LoadAmount))
    THEN [ok |-> FALSE, req |-> req, txn |-> ZeroTxn]
    ELSE LET r == IF req.TimeFmt = "" THEN [req EXCEPT !.TimeFmt = DefaultTimeFmt]
                  ELSE req
         IN  IF r.Time.layout # r.TimeFmt
             THEN [ok |-> FALSE, req |-> r, txn |-> ZeroTxn]
             ELSE [ok |-> TRUE, req |-> r,
                   txn |-> [ID |-> r.ID, CustomerID |-> r.CustomerID,
                            LoadAmount |-> ParseFloat(WithoutDollar(r.LoadAmount)),
                            Time |-> r.Time.day]]

\* the event handleCreateTxnCmd passes to InsertAndPublish for a request
CreatorEvent(id, cmdID, req) ==
    LET c == createTxn(req)
    IN  IF c.ok
        THEN NewEvent(id, c.txn.ID, cmdID, "TxnCreated",
                      [kind |-> "Transaction", txn |-> c.txn, req |-> ZeroReq])
        ELSE NewEvent(id, DashAggregate, cmdID, "TxnCreateFailed",
                      [kind |-> "CreateTxnFailure", txn |-> ZeroTxn, req |-> c.req])

CreatorInit ==
    /\ eventsIndex = <<>>
    /\ store = [a \in CreatorAggregates |-> <<>>]
    /\ unpubLog = <<>>
    /\ published = <<>>
    /\ cmds = <<>>
    /\ acctCfg = NoLimits
    /\ BusInit
    /\ repo = RepoIdle
    /\ view = ViewIdle
    /\ term = TermIdle
    /\ pm = PMIdle
    /\ callers = NoCallers

\* handleCreateTxnCmd(cmd): nothing for a command without data, the error of
\* json.Unmarshal, or one event stored and published
HandleCreateTxnCmd(payload) ==
    /\ Len(cmds) < MaxCreatorCmds
    /\ LET cmdID == Len(cmds) + 1
       IN  IF payload.kind = "req"
           THEN \E r \in {InsertAndPublish([index |-> eventsIndex, store |-> store,
                                            pub |-> published, log |-> unpubLog],
                                           CreatorEvent(Len(eventsIndex) + 1, cmdID,
                                                        payload.req))} :
                  /\ eventsIndex' = r.index
                  /\ store' = r.store
                  /\ published' = r.pub
                  /\ unpubLog' = r.log
                  /\ cmds' = Append(cmds, [id |-> cmdID, data |-> payload, err |-> FALSE])
           ELSE /\ cmds' = Append(cmds, [id |-> cmdID, data |-> payload,
                                         err |-> payload.kind = "notjson"])
                /\ UNCHANGED <<eventsIndex, store, published, unpubLog>>
    /\ UNCHANGED <<acctCfg, busVars, repo, view, term, pm, callers>>

CreatorNext == \E payload \in CmdPayloads : HandleCreateTxnCmd(payload)

SpecCreator == CreatorInit /\ [][CreatorNext]_vars

---------------------------------------------------------------------------
(* MemoryEventStore called directly by several goroutines.  Insert holds  *)
(* the store's lock from its first line to its return, Fetch and          *)
(* FetchByIndex hold the read lock likewise: each call is one step.       *)

NumStoreIDs == 3
NumAggregates == 2

StoreAggregates == 1..NumAggregates

\* events of NewEvent, and events with a blank aggregate id as Insert may
\* be handed; two events with one id may differ in the rest
StoreEvents ==
    {NewEvent(i, a, 0, "AccountDeposited", <<>>) :
        i \in 1..NumStoreIDs, a \in StoreAggregates \cup {0}}

\* NewMemoryEventStore
DirectInit ==
    /\ eventsIndex = <<>>
    /\ store = [a \in StoreAggregates |-> <<>>]
    /\ unpubLog = <<>>
    /\ published = <<>>
    /\ cmds = <<>>
    /\ acctCfg = NoLimits
    /\ BusInit
    /\ repo = RepoIdle
    /\ view = ViewIdle
    /\ term = TermIdle
    /\ pm = PMIdle
    /\ callers = NoCallers

directRest == <<unpubLog, published, acctCfg, cmds, busVars, repo, view, term, pm>>

\* Insert(event) on a store: index and buckets afterwards, and what it returns
Inserted(index, st, e) ==
    IF StoreInsertErr(index, e)
    THEN [index |-> index, store |-> st, ret |-> "err"]
    ELSE [index |-> StoreInsertIndex(index, e),
          store |-> StoreInsertBucket(index, st, e),
          ret   |-> "nil"]

\* MemoryEventStore.Insert
StoreInsert(g, e) ==
    /\ callers[g].pc = "idle"
    /\ \E r \in {Inserted(eventsIndex, store, e)} :
          /\ eventsIndex' = r.index
          /\ store' = r.store
          /\ callers' = [callers EXCEPT ![g] =
                           [CallerIdle EXCEPT !.op = "Insert", !.event = e,
                                              !.had = StoreHas(eventsIndex, e),
                                              !.ret = r.ret]]
    /\ UNCHANGED directRest

\* MemoryEventStore.Fetch
StoreFetch(g, aggID) ==
    /\ callers[g].pc = "idle"
    /\ callers' = [callers EXCEPT ![g] =
                     [CallerIdle EXCEPT !.op = "Fetch", !.arg = aggID, !.ret = "nil",
                                        !.out = Fetch(store, aggID)]]
    /\ UNCHANGED <<eventsIndex, store, directRest>>

\* MemoryEventStore.FetchByIndex with an index up to the number of events
StoreFetchByIndex(g, i) ==
    /\ callers[g].pc = "idle"
    /\ i <= Len(eventsIndex)
    /\ callers' = [callers EXCEPT ![g] =
                     [CallerIdle EXCEPT !.op = "FetchByIndex", !.arg = i, !.ret = "nil",
                                        !.out = FetchByIndex(eventsIndex, i)]]
    /\ UNCHANGED <<eventsIndex, store, directRest>>

StoreNext ==
    \/ \E g \in Goroutines, e \in StoreEvents : StoreInsert(g, e)
    \/ \E g \in Goroutines, aggID \in StoreAggregates : StoreFetch(g, aggID)
    \/ \E g \in Goroutines, i \in 0..NumStoreIDs : StoreFetchByIndex(g, i)

SpecStore == DirectInit /\ [][StoreNext]_vars

---------------------------------------------------------------------------
(* MemoryUnpublishedLog called directly by several goroutines.  Insert    *)
(* and Events hold the log's lock from their first line to their return.  *)
(* Pop looks for the event under the read lock, releases it, and removes  *)
(* the entry at the index it found under the write lock: two steps.       *)

MaxLogLen == 3

LogEvents == {NewEvent(i, 1, 0, "AccountDeposited", <<>>) : i \in 1..NumStoreIDs}

\* a goroutine has panicked: the program has ended
Panicked == \E g \in Goroutines : callers[g].ret = "panic"

logRest == <<eventsIndex, store, published, acctCfg, cmds, busVars, repo, view, term, pm>>

\* MemoryUnpublishedLog.Insert
LogCallInsert(g, e) ==
    /\ ~Panicked
    /\ callers[g].pc = "idle"
    /\ Len(unpubLog) < MaxLogLen
    /\ unpubLog' = LogInsert(unpubLog, e)
    /\ callers' = [callers EXCEPT ![g] =
                     [CallerIdle EXCEPT !.op = "Insert", !.event = e, !.ret = "nil"]]
    /\ UNCHANGED logRest

\* MemoryUnpublishedLog.Events: a copy of the entries
LogCallEvents(g) ==
    /\ ~Panicked
    /\ callers[g].pc = "idle"
    /\ callers' = [callers EXCEPT ![g] =
                     [CallerIdle EXCEPT !.op = "Events", !.ret = "nil", !.out = unpubLog]]
    /\ UNCHANGED <<unpubLog, logRest>>

\* Pop, "Find element": the index of the first entry with the event's id
\* (from 1), or the return of the error
LogPopFind(g, e) ==
    /\ ~Panicked
    /\ callers[g].pc = "idle"
    /\ \E i \in {LogFind(unpubLog, e)} :
          callers' = [callers EXCEPT ![g] =
                        [CallerIdle EXCEPT !.op = "Pop", !.event = e, !.index = i,
                                           !.had = i # 0,
                                           !.pc = IF i = 0 THEN "idle" ELSE "remove",
                                           !.ret = IF i = 0 THEN "err" ELSE ""]]
    /\ UNCHANGED <<unpubLog, logRest>>

\* Pop, "Remove element": append(p.events[:index], p.events[index+1:]...),
\* which panics when the log has become shorter than index+1
LogPopRemove(g) ==
    /\ ~Panicked
    /\ callers[g].pc = "remove"
    /\ IF callers[g].index > Len(unpubLog)
       THEN /\ callers' = [callers EXCEPT ![g].pc = "idle", ![g].ret = "panic"]
            /\ UNCHANGED unpubLog
       ELSE /\ unpubLog' = LogRemoveAt(unpubLog, callers[g].index)
            /\ callers' = [callers EXCEPT ![g].pc = "idle", ![g].ret = "nil"]
    /\ UNCHANGED logRest

LogNext ==
    \/ \E g \in Goroutines, e \in LogEvents : LogCallInsert(g, e)
    \/ \E g \in Goroutines : LogCallEvents(g)
    \/ \E g \in Goroutines, e \in LogEvents : LogPopFind(g, e)
    \/ \E g \in Goroutines : LogPopRemove(g)

SpecLog == DirectInit /\ [][LogNext]_vars

---------------------------------------------------------------------------
(* LoggedEventRepo.InsertAndPublish called by two goroutines, each once and *)
(* with its own event, on a running bus without subscribers: Publish       *)
(* returns nil without blocking.  published holds the events handed to     *)
(* Publish.                                                                *)

\* the event goroutine g passes to InsertAndPublish
CallerEvent(g) == NewEvent(g, 1, 0, "AccountDeposited", <<>>)

callersRest == <<acctCfg, cmds, busVars, repo, view, term, pm>>

\* InsertAndPublish: unpublishedLog.Insert(event)
CallInsertAndPublish(g) ==
    /\ ~Panicked
    /\ callers[g].pc = "idle"
    /\ callers[g].op = ""
    /\ unpubLog' = LogInsert(unpubLog, CallerEvent(g))
    /\ callers' = [callers EXCEPT ![g] =
                     [CallerIdle EXCEPT !.op = "InsertAndPublish",
                                        !.event = CallerEvent(g), !.pc = "events"]]
    /\ UNCHANGED <<eventsIndex, store, published, callersRest>>

\* insertAndPubFromlog: unpublishedLog.Events()
CallEvents(g) ==
    /\ ~Panicked
    /\ callers[g].pc = "events"
    /\ callers' = [callers EXCEPT ![g].out = unpubLog, ![g].pc = "store"]
    /\ UNCHANGED <<eventsIndex, store, unpubLog, published, callersRest>>

\* the loop's next turn, eventStore.Insert(event), or the return of nil
CallStore(g) ==
    /\ ~Panicked
    /\ callers[g].pc = "store"
    /\ IF callers[g].out = <<>>
       THEN /\ callers' = [callers EXCEPT ![g].pc = "idle", ![g].ret = "nil"]
            /\ UNCHANGED <<eventsIndex, store>>
       ELSE /\ eventsIndex' = StoreInsertIndex(eventsIndex, Head(callers[g].out))
            /\ store' = StoreInsertBucket(eventsIndex, store, Head(callers[g].out))
            /\ callers' = [callers EXCEPT ![g].pc = "publish"]
    /\ UNCHANGED <<unpubLog, published, callersRest>>

\* bus.Publish(event)
CallPublish(g) ==
    /\ ~Panicked
    /\ callers[g].pc = "publish"
    /\ published' = Append(published, Head(callers[g].out))
    /\ callers' = [callers EXCEPT ![g].pc = "find"]
    /\ UNCHANGED <<eventsIndex, store, unpubLog, callersRest>>

\* unpublishedLog.Pop(event), "Find element": its error is the call's error
CallPopFind(g) ==
    /\ ~Panicked
    /\ callers[g].pc = "find"
    /\ \E i \in {LogFind(unpubLog, Head(callers[g].out))} :
          callers' = [callers EXCEPT ![g].index = i,
                                     ![g].pc = IF i = 0 THEN "idle" ELSE "remove",
                                     ![g].ret = IF i = 0 THEN "err" ELSE ""]
    /\ UNCHANGED <<eventsIndex, store, unpubLog, published, callersRest>>

\* unpublishedLog.Pop(event), "Remove element"
CallPopRemove(g) ==
    /\ ~Panicked
    /\ callers[g].pc = "remove"
    /\ IF callers[g].index > Len(unpubLog)
       THEN /\ callers' = [callers EXCEPT ![g].pc = "idle", ![g].ret = "panic"]
            /\ UNCHANGED unpubLog
       ELSE /\ unpubLog' = LogRemoveAt(unpubLog, callers[g].index)
            /\ callers' = [callers EXCEPT ![g].pc = "store", ![g].out = Tail(@)]
    /\ UNCHANGED <<eventsIndex, store, published, callersRest>>

CallersNext ==
    \/ \E g \in Goroutines : CallInsertAndPublish(g)
    \/ \E g \in Goroutines : CallEvents(g)
    \/ \E g \in Goroutines : CallStore(g)
    \/ \E g \in Goroutines : CallPublish(g)
    \/ \E g \in Goroutines : CallPopFind(g)
    \/ \E g \in Goroutines : CallPopRemove(g)

SpecCallers == BusRepoInit /\ [][CallersNext]_vars

---------------------------------------------------------------------------
(* What the event store records, read independently of the aggregate *)

Accepted(e) == e.action \in {"AccountDeposited", "AccountWithdrawn"}
Rejected(e) == e.action \in {"DuplicateTxn", "AccountLimitExceeded"}

\* the stored events that answer command k
EventsOfCmd(k) == {i \in 1..Len(eventsIndex) : eventsIndex[i].corr = cmds[k].id}

\* commands before k of the same customer that were accepted
AcceptedBefore(k) ==
    {j \in 1..(k - 1) :
        /\ cmds[j].txn.CustomerID = cmds[k].txn.CustomerID
        /\ \E i \in EventsOfCmd(j) : Accepted(eventsIndex[i])}

SameDay(t1, t2) == Year(t1) = Year(t2) /\ YearDay(t1) = YearDay(t2)
SameWeek(t1, t2) == ISOWeek(t1) = ISOWeek(t2)

RECURSIVE SumLoad(_)
SumLoad(S) ==
    IF S = {} THEN 0
    ELSE LET j == CHOOSE x \in S : TRUE
         IN  cmds[j].txn.LoadAmount + SumLoad(S \ {j})

\* accepted transactions of the customer of command k on k's civil day / ISO
\* week, before k
DayBefore(k) == {j \in AcceptedBefore(k) : SameDay(cmds[j].txn.Time, cmds[k].txn.Time)}
WeekBefore(k) == {j \in AcceptedBefore(k) : SameWeek(cmds[j].txn.Time, cmds[k].txn.Time)}

\* command k repeats the id of an earlier accepted transaction of its customer
RepeatsAccepted(k) == \E j \in AcceptedBefore(k) : cmds[j].txn.ID = cmds[k].txn.ID

DepositsOnly == \A k \in 1..Len(cmds) : cmds[k].txn.LoadAmount >= 0

\* counting command k, the day / week is over a limit that is switched on
OverDaily(k) ==
    \/ acctCfg.dailyCnt > 0 /\ Cardinality(DayBefore(k)) + 1 > acctCfg.dailyCnt
    \/ acctCfg.dailyAmt > 0
         /\ SumLoad(DayBefore(k)) + cmds[k].txn.LoadAmount > acctCfg.dailyAmt
OverWeekly(k) ==
    \/ acctCfg.weeklyCnt > 0 /\ Cardinality(WeekBefore(k)) + 1 > acctCfg.weeklyCnt
    \/ acctCfg.weeklyAmt > 0
         /\ SumLoad(WeekBefore(k)) + cmds[k].txn.LoadAmount > acctCfg.weeklyAmt

LimitFailure(e, trial) ==
    /\ e.action = "AccountLimitExceeded"
    /\ e.data.Error.trial = trial

---------------------------------------------------------------------------
(* What the bus and the repository did, read off the histories *)

\* number of times x occurs in seq
Count(seq, x) == Cardinality({i \in 1..Len(seq) : seq[i] = x})

\* every occurrence of n in seq precedes every occurrence of m
AllBefore(seq, n, m) ==
    \A i, j \in 1..Len(seq) : (seq[i] = m /\ seq[j] = n) => j < i

\* the Publish call that the last InsertAndPublish made for its own event
RepoPublishes ==
    {m \in (repo.msg0 + 1)..Len(msgs) :
        msgs[m].event = repo.event.id /\ msgs[m].ret = "ok"}

\* subscribers of the event's action from before the call until Publish returned
RepoLive(m) == repo.live \cap msgs[m].live

(* C1: on a running bus, under any interleaving of Publish, Subscribe and
   Unsubscribe calls, a message published on action a is put exactly once
   (never twice, and once by the time Publish returns) on the channel of every
   subscriber of a that stays subscribed during the whole Publish call, and
   the messages of one publisher are put on such a channel in publication
   order. *)
C1_ExactlyOnceInOrder ==
    \A m \in 1..Len(msgs) : \A s \in msgs[m].live :
        /\ Count(subs[s].sent, m) <= 1
        /\ msgs[m].ret = "ok" => Count(subs[s].sent, m) = 1
        /\ \A n \in 1..(m - 1) :
              (msgs[n].pub = msgs[m].pub /\ s \in msgs[n].live)
                  => AllBefore(subs[s].sent, n, m)

(* C2: when InsertAndPublish(e) has returned without error (one caller), e is
   in the event store exactly once, in the global index and in the bucket of
   its aggregate; every event handed to Publish was stored before; e has been
   put on the channel of every subscriber of its action that was live during
   the call; and e is no longer in the unpublished log. *)
C2_InsertAndPublishDone ==
    /\ \A m \in 1..Len(msgs) :
          \E i \in 1..Len(eventsIndex) : eventsIndex[i].id = msgs[m].event
    /\ (repo.pc = "ret" /\ repo.err = "") =>
          /\ Count(eventsIndex, repo.event) = 1
          /\ Count([i \in 1..Len(eventsIndex) |-> eventsIndex[i].id], repo.event.id) = 1
          /\ \A c \in Customers :
                Count(store[c], repo.event) = (IF c = repo.event.agg THEN 1 ELSE 0)
          /\ \E m \in RepoPublishes :
                \A s \in RepoLive(m) : Count(subs[s].sent, m) >= 1
          /\ LogFind(unpubLog, repo.event) = 0

\* a successful call whose event went to a subscriber that stayed subscribed
C2_Witness ==
    /\ repo.pc = "ret"
    /\ repo.err = ""
    /\ \E m \in RepoPublishes : \E s \in RepoLive(m) : Count(subs[s].sent, m) >= 1

---------------------------------------------------------------------------
(* C3: every ProcessTxn command is answered by exactly one event, stored in
   the customer's aggregate and published: one of AccountDeposited,
   AccountWithdrawn, DuplicateTxn, AccountLimitExceeded; an accepted command
   gives AccountDeposited when loadAmount >= 0 and AccountWithdrawn when
   loadAmount < 0. *)
C3_ExactlyOneEvent ==
    /\ published = eventsIndex
    /\ unpubLog = <<>>
    /\ \A k \in 1..Len(cmds) :
         /\ Cardinality(EventsOfCmd(k)) = 1
         /\ \A i \in EventsOfCmd(k) :
              LET e == eventsIndex[i]
              IN  /\ e.agg = cmds[k].txn.CustomerID
                  /\ Cardinality({n \in 1..Len(store[e.agg]) :
                                    store[e.agg][n].id = e.id}) = 1
                  /\ Accepted(e) \/ Rejected(e)
                  /\ Accepted(e) =>
                       /\ e.action = "AccountDeposited" <=> cmds[k].txn.LoadAmount >= 0
                       /\ e.action = "AccountWithdrawn" <=> cmds[k].txn.LoadAmount < 0

\* a zero-amount command was accepted as a deposit, after a rejected command
C3_Witness ==
    \E k \in 2..Len(cmds) :
        /\ cmds[k].txn.LoadAmount = 0
        /\ \E i \in EventsOfCmd(k) : eventsIndex[i].action = "AccountDeposited"
        /\ \E i \in EventsOfCmd(k - 1) : Rejected(eventsIndex[i])

(* C4: the balance never becomes negative: the TotalAmount recorded by every
   AccountDeposited / AccountWithdrawn event is >= 0. *)
C4_BalanceNeverNegative ==
    \A i \in 1..Len(eventsIndex) :
        Accepted(eventsIndex[i]) => eventsIndex[i].data.TotalAmount >= 0

(* C5: a command that repeats the id of an earlier accepted transaction of
   the same customer is answered with DuplicateTxn (cause DuplicateTxn),
   whatever its amount and time and whatever the limits would say. *)
C5_DuplicateDeclined ==
    \A k \in 1..Len(cmds) :
        RepeatsAccepted(k) =>
            /\ EventsOfCmd(k) # {}
            /\ \A i \in EventsOfCmd(k) :
                 /\ eventsIndex[i].action = "DuplicateTxn"
                 /\ eventsIndex[i].data.FailureCause = "DuplicateTxn"
                 /\ eventsIndex[i].data.Txn = cmds[k].txn

\* a repeat with another amount and day, over the daily limit, after another
\* accepted transaction, was declined as a duplicate
C5_Witness ==
    \E k \in 3..Len(cmds) : \E j \in AcceptedBefore(k) :
        /\ j < k - 1
        /\ (k - 1) \in AcceptedBefore(k)
        /\ cmds[j].txn.ID = cmds[k].txn.ID
        /\ cmds[j].txn.LoadAmount # cmds[k].txn.LoadAmount
        /\ cmds[j].txn.Time # cmds[k].txn.Time
        /\ OverDaily(k)
        /\ \E i \in EventsOfCmd(k) : eventsIndex[i].action = "DuplicateTxn"

(* C6: with a daily amount limit and a daily count limit switched on, and
   only deposits submitted, a new (non-repeated) transaction is rejected by
   the daily trial, with cause DailyLimitsExceeded, exactly when, counting
   it, the accepted transactions of its civil day are over the count or the
   amount limit. *)
C6_DailyLimitExact ==
    (acctCfg.dailyAmt > 0 /\ acctCfg.dailyCnt > 0 /\ DepositsOnly) =>
        \A k \in 1..Len(cmds) :
            ~RepeatsAccepted(k) =>
                \A i \in EventsOfCmd(k) :
                    (/\ LimitFailure(eventsIndex[i], "daily")
                     /\ eventsIndex[i].data.FailureCause = "DailyLimitsExceeded")
                    <=> OverDaily(k)

(* C7: with a weekly count limit switched on, a new transaction that passes
   the daily trial is rejected with cause WeeklyLimitsExceeded exactly when,
   counting it, the accepted transactions of its ISO week are over the
   weekly count or amount limit. *)
C7_WeeklyLimitExact ==
    acctCfg.weeklyCnt > 0 =>
        \A k \in 1..Len(cmds) :
            ~RepeatsAccepted(k) =>
                \A i \in EventsOfCmd(k) :
                    ~LimitFailure(eventsIndex[i], "daily") =>
                        ((/\ eventsIndex[i].action = "AccountLimitExceeded"
                          /\ eventsIndex[i].data.FailureCause = "WeeklyLimitsExceeded")
                         <=> OverWeekly(k))

\* the events of customer c stored before global position i
RECURSIVE BucketBefore(_, _)
BucketBefore(i, c) ==
    IF i <= 1 THEN <<>>
    ELSE IF eventsIndex[i - 1].agg = c
         THEN Append(BucketBefore(i - 1, c), eventsIndex[i - 1])
         ELSE BucketBefore(i - 1, c)

\* the aggregate as replayed for the command that event i answers
ReplayedFor(i) ==
    LET txn == cmds[eventsIndex[i].corr].txn
    IN  Replayed(acctCfg, [store EXCEPT ![txn.CustomerID] = BucketBefore(i, txn.CustomerID)],
                 txn)

OverLimit(rec, lim) ==
    \/ lim.NumTxns > 0 /\ rec.NumTxns > lim.NumTxns
    \/ lim.TotalAmount > 0 /\ rec.TotalAmount > lim.TotalAmount

(* C8: the FailureCause of an AccountLimitExceeded event follows the
   admission order: the daily trial is judged first; in the trial that fails
   the cause is InsufficientFunds iff balance + trial total < 0, otherwise
   DailyLimitsExceeded for the daily trial and WeeklyLimitsExceeded for the
   weekly trial. *)
C8_CauseFollowsOrder ==
    \A i \in 1..Len(eventsIndex) :
        eventsIndex[i].action = "AccountLimitExceeded" =>
            LET e      == eventsIndex[i]
                txn    == cmds[e.corr].txn
                a      == ReplayedFor(i)
                d      == DailyTrial(a, txn)
                w      == WeeklyTrial(a, txn)
                dFunds == a.balance + d.TotalAmount < 0
                wFunds == a.balance + w.TotalAmount < 0
                dFails == dFunds \/ OverLimit(d, a.dailyLimits)
                wFails == wFunds \/ OverLimit(w, a.weeklyLimits)
            IN  /\ dFails \/ wFails
                /\ e.data.Error.trial = IF dFails THEN "daily" ELSE "weekly"
                /\ e.data.FailureCause =
                     IF dFails
                     THEN IF dFunds THEN "InsufficientFunds" ELSE "DailyLimitsExceeded"
                     ELSE IF wFunds THEN "InsufficientFunds" ELSE "WeeklyLimitsExceeded"

\* one transaction failed only the weekly trial (WeeklyLimitsExceeded), and a
\* later one, over both the daily and the weekly limit, got DailyLimitsExceeded
C8_Witness ==
    \E i, j \in 1..Len(eventsIndex) :
        /\ i < j
        /\ LimitFailure(eventsIndex[i], "weekly")
        /\ eventsIndex[i].data.FailureCause = "WeeklyLimitsExceeded"
        /\ LimitFailure(eventsIndex[j], "daily")
        /\ eventsIndex[j].data.FailureCause = "DailyLimitsExceeded"
        /\ OverWeekly(eventsIndex[j].corr)

AllLimitsZero ==
    /\ acctCfg.dailyAmt = 0 /\ acctCfg.dailyCnt = 0
    /\ acctCfg.weeklyAmt = 0 /\ acctCfg.weeklyCnt = 0

(* C9: a limit configured as 0 never rejects: no AccountLimitExceeded event
   names an axis whose limit is 0; with all four limits 0 and only deposits
   submitted, every deposit with a new id is accepted. *)
C9_ZeroLimitNeverRejects ==
    /\ \A i \in 1..Len(eventsIndex) :
         LET e == eventsIndex[i]
         IN  e.action = "AccountLimitExceeded" =>
               /\ (e.data.Error = [trial |-> "daily", err |-> "count"]) => acctCfg.dailyCnt > 0
               /\ (e.data.Error = [trial |-> "daily", err |-> "amount"]) => acctCfg.dailyAmt > 0
               /\ (e.data.Error = [trial |-> "weekly", err |-> "count"]) => acctCfg.weeklyCnt > 0
               /\ (e.data.Error = [trial |-> "weekly", err |-> "amount"]) => acctCfg.weeklyAmt > 0
    /\ (AllLimitsZero /\ DepositsOnly) =>
         \A k \in 1..Len(cmds) :
            ~RepeatsAccepted(k) =>
                /\ EventsOfCmd(k) # {}
                /\ \A i \in EventsOfCmd(k) : eventsIndex[i].action = "AccountDeposited"

\* with all limits 0, MaxCmds deposits of the same day were all accepted
C9_Witness ==
    /\ AllLimitsZero
    /\ Len(cmds) = MaxCmds
    /\ \A k \in 1..Len(cmds) :
         /\ cmds[k].txn.Time = cmds[1].txn.Time
         /\ cmds[k].txn.LoadAmount > 0
         /\ \E i \in EventsOfCmd(k) : eventsIndex[i].action = "AccountDeposited"

\* accepted commands of customer c on the civil day / in the ISO week of t
AcceptedOfCustomer(c) ==
    {k \in 1..Len(cmds) :
        /\ cmds[k].txn.CustomerID = c
        /\ \E i \in EventsOfCmd(k) : Accepted(eventsIndex[i])}
DayRecord(c, t) ==
    LET S == {k \in AcceptedOfCustomer(c) : SameDay(cmds[k].txn.Time, t)}
    IN  [NumTxns |-> Cardinality(S), TotalAmount |-> SumLoad(S)]
WeekRecord(c, t) ==
    LET S == {k \in AcceptedOfCustomer(c) : SameWeek(cmds[k].txn.Time, t)}
    IN  [NumTxns |-> Cardinality(S), TotalAmount |-> SumLoad(S)]

(* C10: after replaying a customer's events, the record the daily trial
   looks up for a civil day, dailyTxn[year][dayOfYear], holds the count and
   sum of the customer's accepted transactions of that day, and
   weeklyTxn[isoYear][isoWeek] those of that ISO week. *)
C10_RecordsMatchDays ==
    \A c \in Customers : \A t \in TxnTimes :
        LET a == loadAggregate(newAccount(acctCfg), c, Fetch(store, c))
        IN  /\ RecordAt(a.dailyTxn, Year(t), YearDay(t)) = DayRecord(c, t)
            /\ RecordAt(a.weeklyTxn, ISOWeek(t)[1], ISOWeek(t)[2]) = WeekRecord(c, t)

---------------------------------------------------------------------------
(* What the view shows, told from the commands and the store alone *)

\* the report line of the i-th event of the store: the transaction of the
\* command that caused the event, accepted when the event is a deposit or a
\* withdrawal
LineOfEvent(i) ==
    LET e   == eventsIndex[i]
        txn == cmds[e.corr].txn
    IN  <<"{", txn.ID, txn.CustomerID, Accepted(e), "}">>

\* the lines of the first n events, a line feed between two of them
LinesJoined(n) ==
    IF n = 0 THEN <<>>
    ELSE [k \in 1..(2 * n - 1) |-> IF k % 2 = 1 THEN LineOfEvent((k + 1) \div 2)
                                   ELSE <<"\n">>]

\* C11: at every moment the projection holds exactly the first `index` events
\* of the store, in store order, one line each (accepted for a deposit or a
\* withdrawal, declined for a duplicate or an exceeded limit); serialized() is
\* these lines joined by line feeds with none at the end; index is at most the
\* store length, equals the length the fetch saw when hydrate returns, and
\* never decreases.
C11_ProjectionIsStorePrefix ==
    /\ [](/\ view.pc # "err"
          /\ view.index <= Len(eventsIndex)
          /\ Serialized(view) = LinesJoined(view.index)
          /\ Len(view.serializedIndex) = 2 * view.index
          /\ view.pc = "ret" => view.index = view.numEvents)
    /\ [][view'.index >= view.index]_vars

\* hydrate has returned twice-grown: accepted and declined lines are in the
\* projection and the store has grown since the fetch
C11_Witness ==
    /\ view.pc = "ret"
    /\ view.index >= 2
    /\ Len(eventsIndex) > view.index
    /\ \E i, j \in 1..view.index : Accepted(eventsIndex[i]) /\ Rejected(eventsIndex[j])

\* the lines of serialized(), and the (id, customerID) pair of a line
ReportLines == {k \in 1..Len(Serialized(view)) : k % 2 = 1}
PairOfLine(k) == <<Serialized(view)[k][2], Serialized(view)[k][3]>>
AcceptedLine(k) == Serialized(view)[k][4]
LinesOfPair(p) == {k \in ReportLines : PairOfLine(k) = p}
PairOfCmd(k) == <<cmds[k].txn.ID, cmds[k].txn.CustomerID>>
CmdsOfPair(p) == {k \in 1..Len(cmds) : PairOfCmd(k) = p}
Pairs == TxnIDs \X Customers

\* C12 as claimed: every (id, customerID) pair has at most one line in the
\* projection (and so in the report, whose payload is serialized()), also
\* when the same transaction was submitted twice.
C12_PairExactlyOnce ==
    \A p \in Pairs : Cardinality(LinesOfPair(p)) <= 1

\* C12 as amended: a pair has one line per submission of it -- never more
\* lines than commands, exactly as many once hydrate has caught up with the
\* store -- and at most one of these lines says accepted; the lines of a
\* repeated submission of an accepted transaction say declined.
C12_LinePerSubmission ==
    \A p \in Pairs :
        /\ Cardinality(LinesOfPair(p)) <= Cardinality(CmdsOfPair(p))
        /\ view.index = Len(eventsIndex)
              => Cardinality(LinesOfPair(p)) = Cardinality(CmdsOfPair(p))
        /\ Cardinality({k \in LinesOfPair(p) : AcceptedLine(k)}) <= 1
        /\ \A k, l \in LinesOfPair(p) : AcceptedLine(k) /\ k < l => ~AcceptedLine(l)

\* the same transaction was submitted twice and hydrate has caught up: the
\* pair has an accepted line and a declined one, the latter from DuplicateTxn
C12_Witness ==
    /\ view.pc = "ret"
    /\ view.index = Len(eventsIndex)
    /\ \E i, j \in 1..Len(eventsIndex) :
          /\ i < j
          /\ Accepted(eventsIndex[i])
          /\ eventsIndex[j].action = "DuplicateTxn"
          /\ PairOfCmd(eventsIndex[i].corr) = PairOfCmd(eventsIndex[j].corr)
          /\ Cardinality(LinesOfPair(PairOfCmd(eventsIndex[i].corr))) >= 2

---------------------------------------------------------------------------
(* What the pipeline did, told from the messages passed to Publish *)

\* the messages of an action that the n-th line has led to
SentOf(action, n) == {m \in pm.sent : m.msg.action = action /\ m.msg.line = n}

DecisionActions ==
    {"AccountDeposited", "AccountWithdrawn", "AccountLimitExceeded", "DuplicateTxn"}

\* the positions in the Account's event store of the events of the n-th line
StoredOf(n) == {k \in 1..Len(pm.handled) : pm.handled[k] = n}

\* the whole input is read, nothing is cancelled and nobody has failed or
\* returned but the Reader; every listener waits in its select on empty
\* channels and no goroutine of the Process Manager is left
Quiescent ==
    /\ pm.eof
    /\ pm.sup = 0
    /\ \A c \in Components \ {"reader"} : pm.pc[c] = "run"
    /\ pm.ctx = {"reader"}
    /\ \A a \in PipeActions : pm.chan[a] = <<>>
    /\ pm.go = {}
    /\ view.pc \in {"idle", "ret"}

\* C13: once the pipeline is quiescent, with no component failed or
\* cancelled, every line carrying a valid request has led to exactly one
\* TxnRead, one CreateTxn, one TxnCreated, one ProcessTxn, one decision event
\* in the Account's store and one entry of the projection.
C13_EveryLineProcessedOnce ==
    Quiescent =>
        \A n \in 1..Len(pm.lines) :
            pm.lines[n].kind = "req" =>
                /\ \A a \in {"TxnRead", "CreateTxn", "TxnCreated", "ProcessTxn"} :
                       Cardinality(SentOf(a, n)) = 1
                /\ Cardinality(StoredOf(n)) = 1
                /\ \A k \in StoredOf(n) : k <= view.index
                /\ Len(view.serializedIndex) = 2 * Len(eventsIndex)

ReturnedPM == pm.pc["processMgr"] \in {"nil", "err"}

\* C18: the Process Manager returns only after it has seen the done-signal;
\* it returns nil exactly when its waiting goroutine received a DataWritten
\* event before the timer expired and an error exactly when the timer expired
\* first; and once it has seen the done-signal it returns in the end.
C18_ReturnsByReportOrTimeout ==
    /\ [](/\ ReturnedPM => pm.ack
          /\ pm.pc["processMgr"] = "nil" => pm.waited = "event"
          /\ pm.pc["processMgr"] = "err" => pm.waited = "timeout"
          /\ pm.waited = "event" =>
                 \E m \in pm.sent : m.msg.action = "DataWritten" /\ m.to)
    /\ (pm.ack ~> ReturnedPM)

\* both ends have been seen: a return with nil after the event ...
C18_Witness ==
    /\ pm.pc["processMgr"] = "nil"
    /\ pm.waited = "event"
    /\ pm.dones = 2

\* ... and a return with an error after the timer, the event coming too late
C18_WitnessTimeout ==
    /\ pm.pc["processMgr"] = "err"
    /\ pm.waited = "timeout"
    /\ \E m \in pm.sent : m.msg.action = "DataWritten"

WriteDataCmds == {m \in pm.sent : m.msg.action = "WriteData"}

\* C19: a WriteData command is published exactly when the done-signal is seen
\* for the first time, so there is none before and one ever after; its
\* payload is the report of that moment, the lines of the events hydrated so
\* far; seeing the done-signal again publishes nothing and starts no second
\* waiting goroutine with its timer.
C19_OneWriteData ==
    /\ [](/\ Cardinality(WriteDataCmds) = (IF pm.ack THEN 1 ELSE 0)
          /\ pm.ack <=> pm.dones >= 1)
    /\ [][/\ (~pm.ack /\ pm'.ack) =>
                 \E m \in pm'.sent \ pm.sent :
                     /\ m.msg.action = "WriteData"
                     /\ m.msg.data.text = LinesJoined(view.index)
          /\ pm.ack => /\ {m \in pm'.sent : m.msg.action = "WriteData"} = WriteDataCmds
                       /\ pm'.wait = "select" => pm.wait = "select"]_vars

\* the done-signal was seen twice, and the one WriteData command carries a
\* report of one line
C19_Witness ==
    /\ pm.dones = 2
    /\ \E m \in WriteDataCmds : Len(m.msg.data.text) = 1

\* the command the Process Manager answers an event with
CmdOf(action) == IF action = "TxnRead" THEN "CreateTxn" ELSE "ProcessTxn"

CmdsFor(e) == {m \in pm.sent : m.msg.action \in {"CreateTxn", "ProcessTxn"}
                                 /\ m.msg.corr = e.id}
PendingFor(e) == {c \in pm.go : c.corr = e.id}

GotOf(actions) == {e \in pm.got : e.action \in actions}

\* C20: each TxnRead (TxnCreated) event the Process Manager has received has
\* one CreateTxn (ProcessTxn) command, published or about to be, never two,
\* with the event's data as payload and the event's id as correlation key,
\* and no such command exists without its event; a TxnCreateFailed event has
\* no command and leaves the Process Manager running; in the end every
\* received TxnRead and TxnCreated event has its command published.
C20_OneCommandPerEvent ==
    /\ [](/\ \A e \in GotOf({"TxnRead", "TxnCreated"}) :
                /\ Cardinality(CmdsFor(e)) + Cardinality(PendingFor(e)) = 1
                /\ \A m \in CmdsFor(e) : /\ m.msg.action = CmdOf(e.action)
                                         /\ m.msg.data = e.data
          /\ \A m \in pm.sent :
                m.msg.action \in {"CreateTxn", "ProcessTxn"} =>
                    \E e \in GotOf({"TxnRead", "TxnCreated"}) : m.msg.corr = e.id
          /\ \A e \in GotOf({"TxnCreateFailed"}) :
                CmdsFor(e) = {} /\ PendingFor(e) = {})
    /\ [][(\E e \in pm'.got \ pm.got : e.action = "TxnCreateFailed")
             => /\ pm'.pc["processMgr"] = "run"
                /\ pm'.go = pm.go
                /\ pm'.sent = pm.sent]_vars
    /\ <>[](\A e \in GotOf({"TxnRead", "TxnCreated"}) : CmdsFor(e) # {})

\* a TxnRead and the TxnCreated that followed were received and answered
C20_Witness ==
    /\ \E e \in GotOf({"TxnRead"}) : \E m \in CmdsFor(e) : m.to
    /\ \E e \in GotOf({"TxnCreated"}) : \E m \in CmdsFor(e) : m.to

\* a TxnCreateFailed was received and the Process Manager went on to its return
C20_WitnessFailed ==
    /\ GotOf({"TxnCreateFailed"}) # {}
    /\ pm.pc["processMgr"] = "nil"

---------------------------------------------------------------------------
(* One customer's events, told from that customer's commands alone *)

\* action and payload of the events of a bucket
Decisions(events) ==
    [i \in 1..Len(events) |-> [action |-> events[i].action, data |-> events[i].data]]

RECURSIVE Alone(_, _)
\* the decisions customer c gets when only the commands of c among the first
\* k commands are handled, each on an account replayed from the decisions
\* before it
Alone(c, k) ==
    IF k = 0 THEN <<>>
    ELSE LET before == Alone(c, k - 1)
             txn    == cmds[k].txn
         IN  IF txn.CustomerID # c THEN before
             ELSE before \o Decide(ensureYear(loadAggregate(newAccount(acctCfg), c, before),
                                              Year(txn.Time)),
                                   txn)

IsPrefix(s1, s2) == Len(s1) <= Len(s2) /\ SubSeq(s2, 1, Len(s1)) = s1

\* C17: the events stored for a customer -- decision, cause and recorded
\* state -- are those the customer's own commands give when handled without
\* any command of another customer in between, and a further command only
\* appends to a customer's events.
C17_CustomersDoNotInterfere ==
    /\ [](\A c \in IsolCustomers : Decisions(store[c]) = Alone(c, Len(cmds)))
    /\ [][\A c \in IsolCustomers : IsPrefix(store[c], store'[c])]_vars

\* customer 2's command came between two commands of customer 1, the second
\* of which was declined because of the first; both used the same transaction id
C17_Witness ==
    /\ Len(cmds) = 3
    /\ cmds[1].txn.CustomerID = 1 /\ cmds[2].txn.CustomerID = 2 /\ cmds[3].txn.CustomerID = 1
    /\ cmds[1].txn.ID = cmds[2].txn.ID
    /\ Accepted(store[1][1]) /\ Accepted(store[2][1]) /\ Rejected(store[1][2])

---------------------------------------------------------------------------
(* The bus after Terminate *)

\* the subscriptions registered in b.subscriptions
Registered ==
    UNION {{SliceAt(arrays, subscriptions[a], i) : i \in 1..subscriptions[a].len}
             : a \in BusActions}

\* a call that was refused has delivered and registered nothing
RefusedLeftNothing ==
    /\ \A m \in 1..Len(msgs) :
         msgs[m].ret = "err" =>
           \A s \in 1..Len(subs) : \A i \in 1..Len(subs[s].sent) : subs[s].sent[i] # m
    /\ \A s \in 1..Len(subs) :
         subs[s].pc = "err" => ~subs[s].isOpen /\ s \notin Registered

\* a step taken after Terminate has returned: a Publish or a Subscribe that
\* starts is refused at once, a Terminate changes nothing on the bus
AfterTerminate ==
    term.pc = "ret" =>
      /\ Len(msgs') > Len(msgs) =>
           /\ msgs'[Len(msgs')].ret = "err"
           /\ UNCHANGED <<pubs, subs, subscriptions, arrays, ensured>>
      /\ Len(subs') > Len(subs) =>
           /\ subs'[Len(subs')].pc = "err"
           /\ UNCHANGED <<subscriptions, arrays, ensured>>
      /\ term'.calls > term.calls =>
           /\ term' = [term EXCEPT !.calls = @ + 1]
           /\ UNCHANGED busVars

\* C15: once Terminate has returned, every channel that Subscribe had handed
\* out by then is closed; every Publish and every Subscribe called after
\* that returns an error, delivers no message and registers no subscription;
\* a second Terminate changes nothing.
C15_TerminatedBusRefuses ==
    /\ [](term.pc = "ret" => \A s \in term.handed : ~subs[s].isOpen)
    /\ []RefusedLeftNothing
    /\ [][AfterTerminate]_vars

\* Terminate was called twice on a bus with a subscription, and a Publish
\* and a Subscribe were refused
C15_Witness ==
    /\ term.pc = "ret"
    /\ term.calls = 2
    /\ term.handed # {}
    /\ \E m \in 1..Len(msgs) : msgs[m].ret = "err"
    /\ \E s \in 1..Len(subs) : subs[s].pc = "err"

\* Terminate, the publishers that were blocked when it was called and its
\* drain goroutines have all come to their end
TerminateSettled ==
    /\ term.pc = "ret"
    /\ \A p \in term.blocked : pubs[p].pc = "idle"
    /\ \A d \in 1..Len(term.drains) : term.drains[d].pc = "done"

\* while Terminate waits for the write lock of a subscription that a blocked
\* publisher holds for reading, the drain goroutine of that subscription runs
DrainServesBlocked ==
    term.pc = "sublock" /\ HoldsRLock(term.cur) =>
      /\ term.drains[Len(term.drains)].sub = term.cur
      /\ term.drains[Len(term.drains)].pc # "done"

\* C16: when Terminate is called while publishers are blocked in Publish on
\* a full channel (capacity 2) that nobody reads, then with every goroutine
\* scheduled in the end Terminate returns, each of those Publish calls
\* returns and every drain goroutine of Terminate ends; Terminate never
\* waits for a reader's lock without the drain that frees that reader.
C16_TerminateFreesBlockedPublishers ==
    /\ (term.blocked # {}) ~> TerminateSettled
    /\ []DrainServesBlocked

\* Terminate was called with a publisher blocked and all have ended
C16_Witness ==
    /\ term.blocked # {}
    /\ TerminateSettled
    /\ \E d \in 1..Len(term.drains) : term.drains[d].pc = "done"

---------------------------------------------------------------------------
(* The repository when the store insert or the Publish fails *)

\* a replay has returned an error
ReplayFailed == repo.pc = "ret" /\ repo.err \in {"store", "publish"}

\* the event that failed and all events queued after it are still the log,
\* in their order, the last of them the event passed to InsertAndPublish
FailedKeepsLog ==
    ReplayFailed =>
      /\ repo.events # <<>>
      /\ unpubLog = repo.events
      /\ unpubLog[Len(unpubLog)] = repo.event

\* a replay that has returned nil has left nothing in the log
ReplayedAll ==
    repo.pc = "ret" /\ repo.err = "" => unpubLog = <<>>

\* no id is stored twice, in the index or in a bucket
StoredOnce ==
    /\ \A i, j \in 1..Len(eventsIndex) :
         eventsIndex[i].id = eventsIndex[j].id => i = j
    /\ \A c \in Customers : \A i, j \in 1..Len(store[c]) :
         store[c][i].id = store[c][j].id => i = j

\* the log changes by the insert of an event at its end, or by the pop of
\* its oldest event, which is stored and whose Publish has just returned nil
LogInsertOrPop ==
    unpubLog' # unpubLog =>
      \/ \E e \in RepoInputs : unpubLog' = Append(unpubLog, e)
      \/ /\ unpubLog # <<>>
         /\ unpubLog' = Tail(unpubLog)
         /\ StoreHas(eventsIndex, Head(unpubLog))
         /\ msgs[Len(msgs)].event = Head(unpubLog).id
         /\ msgs[Len(msgs)].ret = "ok"
         /\ published' = Append(published, Head(unpubLog))

\* C14: when the store insert or the Publish fails in a replay, the call
\* returns the error and the failed event and all events queued after it
\* stay in the log; the next replay (InsertAndPublish, or a new repository)
\* takes the queued events oldest first, inserts each in the store (once),
\* publishes it and only then pops it, so none is lost or stored twice.
C14_FailedReplayKeepsQueue ==
    /\ []FailedKeepsLog
    /\ []ReplayedAll
    /\ []StoredOnce
    /\ [][LogInsertOrPop]_vars

\* the Publish of an event was refused by the terminating bus, and a later
\* replay has published and popped that event, stored once
C14_Witness ==
    /\ repo.pc = "ret" /\ repo.err = "" /\ unpubLog = <<>>
    /\ \E m \in 1..Len(msgs) :
         /\ msgs[m].ret = "err"
         /\ \E k \in 1..Len(published) : published[k].id = msgs[m].event
         /\ \E i \in 1..Len(eventsIndex) : eventsIndex[i].id = msgs[m].event

\* the store insert has failed with an event queued before the call
C14_WitnessStore ==
    /\ repo.pc = "ret" /\ repo.err = "store"
    /\ Len(unpubLog) = 2

---------------------------------------------------------------------------
(* The Transaction Creator *)

\* the command the Transaction Creator's select is about to take
CreateTxnCmd == Head(pm.chan["CreateTxn"])

\* the messages passed to Publish in this step
NewlySent == pm'.sent \ pm.sent

\* C21: a CreateTxn command whose payload is not a valid request (a document
\* json.Unmarshal refuses as well as a request createTxn refuses) makes the
\* Transaction Creator publish one TxnCreateFailed for that command and go
\* on with its loop; its listener does not return.
C21_InvalidPayloadNotFatal ==
    [][CreatorHandle /\ CreateTxnCmd.data.kind # "req" =>
         /\ pm'.pc["txnCreator"] = "run"
         /\ \E m \in NewlySent :
              /\ m.msg.action = "TxnCreateFailed"
              /\ m.msg.corr = CreateTxnCmd.id]_vars

\* the stored events of a command
EventsOf(cmdID) == {i \in 1..Len(eventsIndex) : eventsIndex[i].corr = cmdID}

\* the published events of a command
PublishedOf(cmdID) == {i \in 1..Len(published) : published[i].corr = cmdID}

\* C22: for every CreateTxn command that carries a request the Transaction
\* Creator has stored one event and published that event once; it is a
\* TxnCreated with the transaction id as aggregate id and a Transaction with
\* the id and customer id of the request, or a TxnCreateFailed with
\* aggregate id "-"; its correlation key is the id of the command.
C22_OneEventPerRequest ==
    \A k \in 1..Len(cmds) :
      cmds[k].data.kind = "req" =>
        /\ Cardinality(EventsOf(cmds[k].id)) = 1
        /\ Cardinality(PublishedOf(cmds[k].id)) = 1
        /\ unpubLog = <<>>
        /\ \A i \in EventsOf(cmds[k].id) :
             /\ \A j \in PublishedOf(cmds[k].id) : published[j] = eventsIndex[i]
             /\ Cardinality({n \in 1..Len(store[eventsIndex[i].agg]) :
                                store[eventsIndex[i].agg][n] = eventsIndex[i]}) = 1
             /\ \/ /\ eventsIndex[i].action = "TxnCreated"
                   /\ eventsIndex[i].agg = cmds[k].data.req.ID
                   /\ eventsIndex[i].agg # DashAggregate
                   /\ eventsIndex[i].data.kind = "Transaction"
                   /\ eventsIndex[i].data.txn.ID = cmds[k].data.req.ID
                   /\ eventsIndex[i].data.txn.CustomerID = cmds[k].data.req.CustomerID
                \/ /\ eventsIndex[i].action = "TxnCreateFailed"
                   /\ eventsIndex[i].agg = DashAggregate
                   /\ eventsIndex[i].data.kind = "CreateTxnFailure"

\* a request was turned into a transaction and another one was refused
C22_Witness ==
    /\ \E i \in 1..Len(eventsIndex) : eventsIndex[i].action = "TxnCreated"
    /\ \E i \in 1..Len(eventsIndex) : eventsIndex[i].action = "TxnCreateFailed"

---------------------------------------------------------------------------
(* The shutdown of RunRoutines *)

ReturnedRoutine(c) == pm.pc[c] \in {"nil", "err"}

\* every routine has been cancelled and has returned, and so has RunRoutines
ShutDown ==
    /\ pm.sup = Len(CancelOrder)
    /\ \A c \in Components : c \in pm.ctx /\ ReturnedRoutine(c)
    /\ pm.ret # "none"

ReverseDependencyOrder ==
    <<"reader", "txnCreator", "account", "processMgr", "accountView", "writer">>

\* the routines RunRoutines has cancelled so far
CancelledByRoutines == {CancelOrder[k] : k \in 1..pm.sup}

\* a context is cancelled by RunRoutines or by its own routine at its return
CancelledInOrder ==
    /\ pm.sup > 0 => pm.main
    /\ \A k \in 1..pm.sup : CancelOrder[k] = ReverseDependencyOrder[k]
    /\ \A k \in 1..(pm.sup - 1) : ReturnedRoutine(CancelOrder[k])
    /\ \A c \in Components : c \in pm.ctx => c \in CancelledByRoutines \/ ReturnedRoutine(c)

\* RunRoutines cancels one routine at a time, the next in the order
CancelStep ==
    pm'.sup # pm.sup =>
      /\ pm'.sup = pm.sup + 1
      /\ pm.main
      /\ ReverseDependencyOrder[pm'.sup] \in pm'.ctx

\* the Process Manager publishes WriteData: the Reader, the Transaction
\* Creator and the Account have returned, and RunRoutines has cancelled
\* neither the account view nor the Writer
WriteDataStep ==
    (\E m \in NewlySent : m.msg.action = "WriteData") =>
      /\ "processMgr" \in CancelledByRoutines
      /\ \A c \in {"reader", "txnCreator", "account"} : ReturnedRoutine(c)
      /\ "accountView" \notin CancelledByRoutines
      /\ "writer" \notin CancelledByRoutines

\* C24: RunRoutines cancels nothing before mainCancel has fired; it cancels
\* in the order Reader, Transaction Creator, Account, Process Manager,
\* account view, Writer, each after the one before has returned; so when the
\* Process Manager gets its done-signal and publishes WriteData the Account
\* has returned and the account view and the Writer are not yet cancelled.
C24_CancelledInOrder ==
    /\ []CancelledInOrder
    /\ [][CancelStep]_vars
    /\ [][WriteDataStep]_vars

\* WriteData is published and the Process Manager is the last one cancelled
C24_Witness ==
    /\ \E m \in pm.sent : m.msg.action = "WriteData"
    /\ pm.sup = 4
    /\ ReturnedRoutine("account")
    /\ ~ReturnedRoutine("accountView")
    /\ ~ReturnedRoutine("writer")

\* the routines whose goroutine returned an error, under RunRoutines' names
FailedRoutines == {RoutineName(c) : c \in {d \in Components : pm.pc[d] = "err"}}

\* C25: when RunRoutines has returned, every routine has returned; it
\* returned nil exactly when every routine returned nil, and otherwise its
\* error names the routines that returned an error and no other.
C25_ErrorNamesFailedRoutines ==
    pm.ret # "none" =>
      /\ \A c \in Components : ReturnedRoutine(c)
      /\ pm.ret = "nil" <=> \A c \in Components : pm.pc[c] = "nil"
      /\ pm.ret = "err" <=> FailedRoutines # {}
      /\ pm.errs = FailedRoutines

\* RunRoutines returned an error: some routines failed and some did not
C25_Witness ==
    /\ pm.ret = "err"
    /\ FailedRoutines # {}
    /\ \E c \in Components : pm.pc[c] = "nil"

\* C26: when RunRoutines has returned the bus is terminating, and a Publish
\* called after that return gets an error.
C26_BusTerminatedAtReturn ==
    /\ pm.ret # "none" => isTerminating
    /\ pm.late # "none" => pm.late = "err"

---------------------------------------------------------------------------
(* The event store called directly *)

\* no event id occurs twice in the index or in the buckets
NoIdTwice ==
    /\ \A i, j \in 1..Len(eventsIndex) :
          eventsIndex[i].id = eventsIndex[j].id => i = j
    /\ \A a, b \in DOMAIN store :
          \A i \in 1..Len(store[a]), j \in 1..Len(store[b]) :
             store[a][i].id = store[b][j].id => a = b /\ i = j

\* from the store as it is: Insert(e) twice leaves what Insert(e) once leaves
InsertTwiceAsOnce ==
    \A e \in StoreEvents :
       \E once \in {Inserted(eventsIndex, store, e)} :
       \E twice \in {Inserted(once.index, once.store, e)} :
          /\ twice = once
          /\ \A a \in StoreAggregates : Fetch(twice.store, a) = Fetch(once.store, a)
          /\ \A i \in 0..Len(once.index) :
                FetchByIndex(twice.index, i) = FetchByIndex(once.index, i)

\* a goroutine's Insert of an event whose id is stored
InsertOfStoredId ==
    \A g \in Goroutines :
       callers'[g] # callers[g] /\ callers'[g].op = "Insert" /\ callers'[g].had =>
          /\ UNCHANGED <<eventsIndex, store>>
          /\ callers'[g].ret = "nil"

\* C27: an Insert of an event whose id is stored changes neither the index
\* nor a bucket and returns nil; Insert(e) twice leaves the store, and so
\* what Fetch and FetchByIndex return, as Insert(e) once does; no event id
\* is ever twice in the store.
C27_InsertIdempotent ==
    /\ []NoIdTwice
    /\ []InsertTwiceAsOnce
    /\ [][InsertOfStoredId]_vars

\* an event was inserted whose id was stored with another aggregate id
C27_Witness ==
    \E g \in Goroutines :
       /\ callers[g].op = "Insert" /\ callers[g].had /\ callers[g].ret = "nil"
       /\ Len(eventsIndex) >= 2
       /\ \E i \in 1..Len(eventsIndex) :
             /\ eventsIndex[i].id = callers[g].event.id
             /\ eventsIndex[i] # callers[g].event

\* the events of an aggregate in the order of the global index
OfAggregate(index, aggID) ==
    LET IsOf(e) == e.agg = aggID IN SelectSeq(index, IsOf)

\* the index and the buckets grow at their ends only
AppendOnly ==
    /\ IsPrefix(eventsIndex, eventsIndex')
    /\ Len(eventsIndex') <= Len(eventsIndex) + 1
    /\ \A a \in StoreAggregates : IsPrefix(store[a], store'[a])

\* what Fetch and FetchByIndex return, now and to the goroutine that called
FetchesRight ==
    /\ \A a \in StoreAggregates : Fetch(store, a) = OfAggregate(eventsIndex, a)
    /\ \A i \in 0..Len(eventsIndex) :
          FetchByIndex(eventsIndex, i) = SubSeq(eventsIndex, i + 1, Len(eventsIndex))
    /\ FetchByIndex(eventsIndex, 0) = eventsIndex
    /\ FetchByIndex(eventsIndex, Len(eventsIndex)) = <<>>

FetchStep ==
    \A g \in Goroutines :
       callers'[g] # callers[g] =>
          /\ callers'[g].op = "Fetch" =>
                callers'[g].out = OfAggregate(eventsIndex, callers'[g].arg)
          /\ callers'[g].op = "FetchByIndex" =>
                callers'[g].out = SubSeq(eventsIndex, callers'[g].arg + 1, Len(eventsIndex))

\* C28: whatever the goroutines insert, the global index only grows by
\* appending, Fetch(aggID) returns the events of the index with that
\* aggregate id in the index's order, and FetchByIndex(i), 0 <= i <= len,
\* returns the events at the positions i..len-1 (counted from 0) in order.
C28_IndexAppendOnlyFetchesRight ==
    /\ [][AppendOnly]_vars
    /\ []FetchesRight
    /\ [][FetchStep]_vars

\* three events of two aggregates in turn; one goroutine fetched an
\* aggregate's two events, the other the events from index 1
C28_Witness ==
    /\ Len(eventsIndex) = 3
    /\ eventsIndex[1].agg = eventsIndex[3].agg
    /\ eventsIndex[1].agg # eventsIndex[2].agg
    /\ \E g, h \in Goroutines :
          /\ callers[g].op = "Fetch" /\ callers[g].out = <<eventsIndex[1], eventsIndex[3]>>
          /\ callers[h].op = "FetchByIndex" /\ callers[h].arg = 1
          /\ callers[h].out = <<eventsIndex[2], eventsIndex[3]>>

---------------------------------------------------------------------------
(* The unpublished log called directly *)

\* the log without its entry at position i
WithoutEntry(log, i) == SubSeq(log, 1, i - 1) \o SubSeq(log, i + 1, Len(log))

\* a Pop returns in this step: with nil it has removed an entry with the
\* event's id and nothing else, with the error the log held no such entry
\* and is unchanged; it does not end in any other way
PopReturns ==
    \A g \in Goroutines :
       callers'[g] # callers[g] /\ callers'[g].op = "Pop" /\ callers'[g].pc = "idle" =>
          \/ /\ callers'[g].ret = "nil"
             /\ \E i \in 1..Len(unpubLog) :
                   /\ unpubLog[i].id = callers'[g].event.id
                   /\ unpubLog' = WithoutEntry(unpubLog, i)
          \/ /\ callers'[g].ret = "err"
             /\ ~\E i \in 1..Len(unpubLog) : unpubLog[i].id = callers'[g].event.id
             /\ unpubLog' = unpubLog

\* C29: with goroutines calling Insert, Pop and Events at once, a Pop that
\* returns nil has removed exactly one entry, one with its event's id, the
\* other entries staying in their order; a Pop of an id the log does not
\* hold returns an error and leaves the log as it is.
C29_PopRemovesItsEntry == [][PopReturns]_vars

---------------------------------------------------------------------------
(* Unsubscribe and the other subscriptions *)

\* the subscriptions in the list of an action
Listed(a) ==
    {SliceAt(arrays, subscriptions[a], i) : i \in 1..subscriptions[a].len}

\* an Unsubscribe of s with its own action has returned nil
UnsubscribedOK(s) ==
    \E u \in 1..Len(unsubs) :
       /\ unsubs[u].sub = s
       /\ unsubs[u].action = subs[s].action
       /\ unsubs[u].pc = "ok"

\* whenever no Unsubscribe is inside its critical section, the list of an
\* action holds, once each, the subscriptions made for it that no
\* Unsubscribe has removed; those and no other have an open channel
SubscribedExactly ==
    /\ subsMapLock = 0 =>
          \A a \in BusActions :
             /\ Listed(a) = {s \in 1..Len(subs) : /\ subs[s].pc = "live"
                                                  /\ subs[s].action = a
                                                  /\ ~UnsubscribedOK(s)}
             /\ subscriptions[a].len = Cardinality(Listed(a))
    /\ \A s \in 1..Len(subs) :
          subs[s].pc = "live" => (subs[s].isOpen <=> ~UnsubscribedOK(s))

\* a message whose Publish has returned is on the channel of every
\* subscriber that stayed subscribed
KeepsReceiving ==
    \A m \in 1..Len(msgs) :
       msgs[m].ret = "ok" => \A s \in msgs[m].live : Count(subs[s].sent, m) >= 1

\* an Unsubscribe comes to its search: of a channel an Unsubscribe has
\* removed before, it returns the error and the bus stays as it is; of a
\* live subscription with its own action, it finds the subscription
UnsubscribeSearches ==
    \A u \in 1..Len(unsubs) :
       unsubs[u].pc = "maplock" /\ unsubs'[u].pc # "maplock" =>
          IF \E v \in 1..Len(unsubs) :
                /\ v # u
                /\ unsubs[v].sub = unsubs[u].sub
                /\ unsubs[v].action = unsubs[u].action
                /\ unsubs[v].pc = "ok"
          THEN /\ unsubs'[u].pc = "err"
               /\ UNCHANGED <<subscriptions, arrays, ensured, subs, subsMapLock, pubs, msgs>>
          ELSE unsubs[u].action = subs[unsubs[u].sub].action => unsubs'[u].pc = "sublock"

---------------------------------------------------------------------------
(* Unsubscribe and Subscribe on the terminating bus *)

\* the first Unsubscribe of its channel, called with the channel's own action
OwnFirstUnsubscribe(u) ==
    /\ unsubs[u].action = subs[unsubs[u].sub].action
    /\ \A v \in 1..(u - 1) : unsubs[v].sub # unsubs[u].sub

\* C31: an Unsubscribe called while the bus is terminating, of a channel
\* that was subscribed and with the channel's action, returns no error.
C31_LateUnsubscribeNoError ==
    \A u \in 1..Len(unsubs) : OwnFirstUnsubscribe(u) => unsubs[u].pc # "err"

---------------------------------------------------------------------------
\* the command of the same customer handled last before command k, 0 if none
LastBefore(k) ==
    IF \E j \in 1..(k - 1) : cmds[j].txn.CustomerID = cmds[k].txn.CustomerID
    THEN CHOOSE j \in 1..(k - 1) :
            /\ cmds[j].txn.CustomerID = cmds[k].txn.CustomerID
            /\ \A i \in (j + 1)..(k - 1) : cmds[i].txn.CustomerID # cmds[k].txn.CustomerID
    ELSE 0

\* the balance that the event of command j leaves to the next replay
BalanceLeftBy(j) ==
    IF j = 0 THEN 0 ELSE UnmarshalState(eventsIndex[j].data).TotalAmount

(* C32: the Account command listener handles ProcessTxn commands one at a
   time: whenever a handler starts, the decision event of every command
   handled before is in the event store, at the position of its command; the
   decision of command k is taken on the state that the event of the
   customer's previous command left (an accepted k records that balance plus
   its amount), and a command that repeats the id its accepted predecessor
   carried is declined as a duplicate. *)
C32_OneCommandAtATime ==
    /\ Len(eventsIndex) = Len(cmds)
    /\ \A k \in 1..Len(cmds) :
         /\ eventsIndex[k].corr = cmds[k].id
         /\ Accepted(eventsIndex[k]) =>
              eventsIndex[k].data.TotalAmount
                  = BalanceLeftBy(LastBefore(k)) + cmds[k].txn.LoadAmount
         /\ (/\ LastBefore(k) # 0
             /\ Accepted(eventsIndex[LastBefore(k)])
             /\ cmds[LastBefore(k)].txn.ID = cmds[k].txn.ID)
                => eventsIndex[k].action = "DuplicateTxn"

\* three commands accepted in a row, each on the balance the one before left
C32_Witness ==
    /\ Len(cmds) = 3
    /\ \A k \in 1..3 : Accepted(eventsIndex[k])
    /\ eventsIndex[2].data.TotalAmount # cmds[2].txn.LoadAmount
    /\ eventsIndex[3].data.TotalAmount # eventsIndex[2].data.TotalAmount

---------------------------------------------------------------------------
(* C33: the ProcessTxn commands of one customer reach the Account handler in
   the order in which the Reader read their lines: the lines of the commands
   handled so far are increasing. *)
C33_InputOrderKept ==
    \A i, j \in 1..Len(pm.handled) : i < j => pm.handled[i] < pm.handled[j]

---------------------------------------------------------------------------
\* the step of writeReportAndStopLoop that serializes the projection
SerializesReport == ~pm.ack /\ pm'.ack

\* the payload of the WriteData command published so far
WriteDataTexts == {m.msg.data.text : m \in {n \in pm.sent : n.msg.action = "WriteData"}}

\* the result line of a stored decision, read from the event itself
EntryOfEvent(e) ==
    IF Accepted(e) THEN <<"{", e.data.TxnID, e.data.CustID, TRUE, "}">>
    ELSE <<"{", e.data.Txn.ID, e.data.Txn.CustomerID, FALSE, "}">>

\* the report of the first n events of the store: one line each, line feeds
\* between them
RECURSIVE ReportOf(_)
ReportOf(n) ==
    IF n = 0 THEN <<>>
    ELSE IF n = 1 THEN <<EntryOfEvent(eventsIndex[1])>>
    ELSE ReportOf(n - 1) \o <<LineFeed, EntryOfEvent(eventsIndex[n])>>

(* C34 as stated: when the Process Manager serializes the projection for the
   WriteData command, the projection's index equals the length of the event
   store. *)
C34_ReportCoversStore ==
    [][SerializesReport => view.index = Len(eventsIndex)]_vars

(* C34, amended: when the Process Manager serializes the projection, the
   Account routine has returned, so the store grows no more; the projection
   has consumed a prefix of the store (index <= store length), and the
   payload of WriteData is the report of exactly that prefix. *)
C34_ReportIsPrefixOfStore ==
    [][SerializesReport =>
          /\ ReturnedRoutine("account")
          /\ view.index <= Len(eventsIndex)
          /\ WriteDataTexts' = {ReportOf(view.index)}]_vars

\* a report with the decision of the stored event has been handed to the Writer
C34_Witness ==
    /\ Len(eventsIndex) = 1
    /\ WriteDataTexts = {ReportOf(1)}

---------------------------------------------------------------------------
(* C35: the balance a command is admitted on is the sum of the load amounts
   of the customer's transactions accepted before: the TotalAmount recorded
   by an accepted command is that sum plus its own amount, whatever rejected
   commands came in between. *)
C35_BalanceIsSumOfAccepted ==
    \A k \in 1..Len(cmds) : \A i \in EventsOfCmd(k) :
        Accepted(eventsIndex[i]) =>
            eventsIndex[i].data.TotalAmount
                = SumLoad(AcceptedBefore(k)) + cmds[k].txn.LoadAmount

---------------------------------------------------------------------------
\* Unsubscribe call u was given the channel of a subscription of another action
WrongAction(u) == unsubs[u].action # subs[unsubs[u].sub].action

(* C36: an Unsubscribe call that returns an error because the channel was
   passed with the wrong action has no effect on delivery: no step of the
   drain task it started takes a message off the subscriber's channel. *)
C36_ErroredUnsubscribeTakesNothing ==
    [][\A u \in 1..Len(unsubs) :
          (WrongAction(u) /\ unsubs[u].drain = "recv" /\ unsubs'[u].drain = "select")
              => subs'[unsubs[u].sub].chan = subs[unsubs[u].sub].chan]_vars

---------------------------------------------------------------------------
(* C37: a Subscribe call that overlaps a Terminate call returns an error or a
   channel that Terminate closes: it never returns a nil channel with a nil
   error, and once Terminate has returned no subscription with an open
   channel is registered. *)
C37_SubscribeOverlappingTerminate ==
    /\ \A s \in 1..Len(subs) : subs[s].pc # "nil"
    /\ term.pc = "ret" =>
          \A s \in 1..Len(subs) : subs[s].pc = "live" => ~subs[s].isOpen

---------------------------------------------------------------------------
(* C38: when two callers run InsertAndPublish concurrently for two distinct
   events, no call returns an error or panics, no event is handed to Publish
   twice, and when both calls have returned each event is stored once, was
   published once and has left the unpublished log. *)
C38_ConcurrentInsertAndPublish ==
    /\ \A g \in Goroutines : callers[g].ret \in {"", "nil"}
    /\ \A g \in Goroutines : Count(published, CallerEvent(g)) <= 1
    /\ (\A g \in Goroutines : callers[g].ret = "nil") =>
          /\ unpubLog = <<>>
          /\ \A g \in Goroutines :
                /\ Count(eventsIndex, CallerEvent(g)) = 1
                /\ Count(published, CallerEvent(g)) = 1

---------------------------------------------------------------------------
\* a transaction id that no command carries
FreshTxnID == NumTxnIDs + 1

\* command k repeats an id that was rejected for a limit before and that was
\* never accepted
RepeatsRejectedOnly(k) ==
    /\ ~RepeatsAccepted(k)
    /\ \E j \in 1..(k - 1) :
          /\ cmds[j].txn.CustomerID = cmds[k].txn.CustomerID
          /\ cmds[j].txn.ID = cmds[k].txn.ID
          /\ \E i \in EventsOfCmd(j) : eventsIndex[i].action = "AccountLimitExceeded"

(* C39: only accepted transactions enter the duplicate record: a command is
   answered with DuplicateTxn only when its id was accepted before, and a
   command that repeats an id rejected with AccountLimitExceeded is decided
   as the same transaction with a new id would be. *)
C39_RejectedIdNotRemembered ==
    \A k \in 1..Len(cmds) : \A i \in EventsOfCmd(k) :
        /\ eventsIndex[i].action = "DuplicateTxn" => RepeatsAccepted(k)
        /\ RepeatsRejectedOnly(k) =>
              eventsIndex[i].action
                 = Decide(ReplayedFor(i), [cmds[k].txn EXCEPT !.ID = FreshTxnID])[1].action

\* a withdrawal was rejected and the same id was accepted afterwards
C39_Witness ==
    \E k \in 1..Len(cmds) :
        /\ RepeatsRejectedOnly(k)
        /\ \E i \in EventsOfCmd(k) : Accepted(eventsIndex[i])

---------------------------------------------------------------------------
(* C40: no goroutine of the Process Manager sends on its error channel after
   the channel has been closed: no forwarding goroutine whose Publish failed
   panics on the closed channel. *)
C40_NoSendOnClosedErrChan == ~pm.panicked

====
